---------------------------- MODULE Spec2Model ----------------------------
(***************************************************************************)
(* A model of Konsole's VT102 emulation core (Vt102Emulation.cpp): the     *)
(* escape-sequence tokenizer, the token dispatcher, the mode registry, the *)
(* charset filter and the session-attribute (OSC) handler.                 *)
(*                                                                         *)
(* The emulation state is threaded through the operators as a record `s`   *)
(* whose fields are the variables declared below; every action commits the *)
(* record computed by the handler it models.  Calls made on collaborators  *)
(* (the two Screen objects, their URL extractors, the signals of the       *)
(* emulation) are appended, in call order, to the field `emitted`.         *)
(***************************************************************************)
EXTENDS Integers, Sequences, FiniteSets

VARIABLES
    tokenBuffer,      \* tokenBuffer[0 .. tokenBufferPos-1] (1-based here)
    tokenBuffer1,     \* what the slot tokenBuffer[1] holds, stale or not
    argv,             \* int argv[MAXARGS]
    argvWritten,      \* history: the indices of argv assigned so far
    argc,             \* int argc
    _currentModes,    \* _currentModes.mode[]
    _savedModes,      \* _savedModes.mode[]
    _charset,         \* CharCodes _charset[2]
    _currentScreen,   \* index of the Screen _currentScreen points to
    imageSize,        \* lines and columns of the screens
    _pendingSessionAttributesUpdates, \* QHash<int, QString>
    timerActive,      \* _sessionAttributesUpdateTimer is running
    _reportFocusEvents,
    urlReading,       \* urlExtractor()->reading() of each screen
    emitted,          \* the calls and signals made by the last operation
    tokens,           \* the tokens the last operation dispatched
    lastCall,         \* the last operation invoked on the emulation
    recorded,         \* history: the mode and value a setMode; saveMode
                      \* pair recorded, while only set/reset calls followed
    calls,            \* history: the inputs of the operations so far
    log,              \* history: every entry of emitted so far, tagged
    pendingOrder,     \* history: pending attribute ids, by first insertion
    updates           \* history: latest OSC update per id since last flush

vars == <<tokenBuffer, tokenBuffer1, argv, argvWritten, argc, _currentModes, _savedModes, _charset,
          _currentScreen, imageSize, _pendingSessionAttributesUpdates,
          timerActive, _reportFocusEvents, urlReading, emitted, tokens, lastCall,
          recorded, calls, log, pendingOrder, updates>>

---------------------------------------------------------------------------
(* Code points.  Asc maps a printable ASCII character to its code.         *)

AsciiTable ==
    <<" ", "!", "\"", "#", "$", "%", "&", "'", "(", ")", "*", "+", ",", "-",
      ".", "/", "0", "1", "2", "3", "4", "5", "6", "7", "8", "9", ":", ";",
      "<", "=", ">", "?", "@", "A", "B", "C", "D", "E", "F", "G", "H", "I",
      "J", "K", "L", "M", "N", "O", "P", "Q", "R", "S", "T", "U", "V", "W",
      "X", "Y", "Z", "[", "\\", "]", "^", "_", "grave", "a", "b", "c", "d", "e",
      "f", "g", "h", "i", "j", "k", "l", "m", "n", "o", "p", "q", "r", "s",
      "t", "u", "v", "w", "x", "y", "z", "{", "|", "}", "~">>

Asc ==
    [c \in {AsciiTable[i] : i \in 1..Len(AsciiTable)} |->
        31 + (CHOOSE i \in 1..Len(AsciiTable) : AsciiTable[i] = c)]

\* The codes of the characters of a set of one-character strings.
AscSet(S) == {Asc[c] : c \in S}

ESC == 27
DEL == 127
SP == 32
BEL == 7
CNTL(c) == Asc[c] - Asc["@"]
CAN == CNTL("X")
SUB == CNTL("Z")

Min(a, b) == IF a < b THEN a ELSE b

\* The decimal digits of n >= 0, as code points (what "%d" prints).
RECURSIVE Dec(_)
Dec(n) == IF n < 10 THEN <<Asc["0"] + n>>
          ELSE Append(Dec(n \div 10), Asc["0"] + (n % 10))

---------------------------------------------------------------------------
(* Bounds of the model and constants of the program.                       *)

\* Capacity of tokenBuffer (Vt102Emulation.h; scaled down for checking).
MAX_TOKEN_LENGTH == 6
\* Size of argv (Vt102Emulation.h; scaled down for checking).
MAXARGS == 4
MAX_ARGUMENT == 40960

---------------------------------------------------------------------------
(* Modes.                                                                  *)

MODE_Origin == "Origin"
MODE_Wrap == "Wrap"
MODE_Insert == "Insert"
MODE_Screen == "Screen"
MODE_Cursor == "Cursor"
MODE_NewLine == "NewLine"
MODE_AppScreen == "AppScreen"
MODE_AppCuKeys == "AppCuKeys"
MODE_AppKeyPad == "AppKeyPad"
MODE_Mouse1000 == "Mouse1000"
MODE_Mouse1001 == "Mouse1001"
MODE_Mouse1002 == "Mouse1002"
MODE_Mouse1003 == "Mouse1003"
MODE_Mouse1005 == "Mouse1005"
MODE_Mouse1006 == "Mouse1006"
MODE_Mouse1007 == "Mouse1007"
MODE_Mouse1015 == "Mouse1015"
MODE_Ansi == "Ansi"
MODE_132Columns == "132Columns"
MODE_Allow132Columns == "Allow132Columns"
MODE_BracketedPaste == "BracketedPaste"

\* The modes m with m < MODES_SCREEN (MODE_NewLine and MODE_AppScreen are
\* among them).
MODES_SCREEN ==
    {MODE_Origin, MODE_Wrap, MODE_Insert, MODE_Screen, MODE_Cursor,
     MODE_NewLine, MODE_AppScreen}

Modes ==
    MODES_SCREEN \cup
    {MODE_AppCuKeys, MODE_AppKeyPad, MODE_Mouse1000, MODE_Mouse1001,
     MODE_Mouse1002, MODE_Mouse1003, MODE_Mouse1005, MODE_Mouse1006,
     MODE_Mouse1007, MODE_Mouse1015, MODE_Ansi, MODE_132Columns,
     MODE_Allow132Columns, MODE_BracketedPaste}

\* TerminalState(): every mode false.
TerminalState == [m \in Modes |-> FALSE]

---------------------------------------------------------------------------
(* The state record and the calls it records.                              *)

\* depth counts the receiveChars calls made from inside receiveChars that
\* have not returned, deepest is the largest depth the operation reached.
St ==
    [tokenBuffer |-> tokenBuffer, tokenBuffer1 |-> tokenBuffer1,
     argv |-> argv, argvWritten |-> argvWritten, argc |-> argc,
     _currentModes |-> _currentModes, _savedModes |-> _savedModes,
     _charset |-> _charset, _currentScreen |-> _currentScreen,
     imageSize |-> imageSize,
     _pendingSessionAttributesUpdates |-> _pendingSessionAttributesUpdates,
     timerActive |-> timerActive, _reportFocusEvents |-> _reportFocusEvents,
     urlReading |-> urlReading, emitted |-> <<>>, tokens |-> <<>>,
     depth |-> 0, deepest |-> 0]

\* One recorded call: its target ("screen", "signal" or "self"), the screen
\* it is made on, its name, and its arguments: a mode, integers, a text.
Call(s, tgt, n, op, m, args, text) ==
    [s EXCEPT !.emitted =
        Append(@, [tgt |-> tgt, scr |-> n, op |-> op, m |-> m,
                   args |-> args, text |-> text])]

\* A call on Screen n.
ScreenCall(s, n, op, args) == Call(s, "screen", n, op, "", args, <<>>)

\* A call on the current Screen.
CurScreenCall(s, op, args) == ScreenCall(s, s._currentScreen, op, args)

\* A signal of the emulation (Q_EMIT).
Signal(s, op, args) == Call(s, "signal", 0, op, "", args, <<>>)

\* A call of an operation of the emulation itself.
SelfCall(s, op, args) == Call(s, "self", 0, op, "", args, <<>>)

\* A C++ bool as an argument.
Bool(b) == IF b THEN 1 ELSE 0

---------------------------------------------------------------------------
(* Tokens.                                                                 *)

\* The token word, given by its three bit fields: bits 16..31 hold
\* n & 0xffff, bits 8..15 hold a & 0xff, bits 0..7 hold t & 0xff.
token_construct(t, a, n) == <<n % 65536, a % 256, t % 256>>

token_chr == token_construct(0, 0, 0)
token_ctl(a) == token_construct(1, a, 0)
token_esc(a) == token_construct(2, a, 0)
token_esc_cs(a, b) == token_construct(3, a, b)
token_esc_de(a) == token_construct(4, a, 0)
token_csi_ps(a, n) == token_construct(5, a, n)
token_csi_pn(a) == token_construct(6, a, 0)
token_csi_pr(a, n) == token_construct(7, a, n)
token_vt52(a) == token_construct(8, a, 0)
token_csi_pg(a) == token_construct(9, a, 0)
token_csi_pe(a) == token_construct(10, a, 0)
token_csi_sp(a) == token_construct(11, a, 0)
token_csi_psp(a, n) == token_construct(12, a, n)
token_csi_pq(a) == token_construct(13, a, 0)

---------------------------------------------------------------------------
(* The tokenizer's state.                                                  *)

tokenBufferPos(s) == Len(s.tokenBuffer)

resetTokenizer(s) ==
    [s EXCEPT !.tokenBuffer = <<>>,
              !.argc = 0,
              !.argv = [@ EXCEPT ![0] = 0, ![1] = 0],
              !.argvWritten = @ \cup {0, 1}]

addDigit(s, digit) ==
    [s EXCEPT !.argv[s.argc] = Min((10 * @) + digit, MAX_ARGUMENT),
              !.argvWritten = @ \cup {s.argc}]

\* addArgument without the qMin that keeps argc below MAXARGS.
addArgumentUnclamped(s) ==
    LET n == s.argc + 1
    IN  [s EXCEPT !.argc = n,
                  !.argv = [i \in DOMAIN @ \cup {n} |-> IF i = n THEN 0 ELSE @[i]],
                  !.argvWritten = @ \cup {n}]

addArgument(s) ==
    LET n == Min(s.argc + 1, MAXARGS - 1)
    IN  [s EXCEPT !.argc = n, !.argv[n] = 0, !.argvWritten = @ \cup {n}]

\* tokenBufferPos = qMin(tokenBufferPos, MAX_TOKEN_LENGTH - 1), then the
\* store at that position and the increment.
addToCurrentToken(s, cc) ==
    LET pos == Min(tokenBufferPos(s), MAX_TOKEN_LENGTH - 1)
    IN  [s EXCEPT !.tokenBuffer = Append(SubSeq(@, 1, pos), cc),
                  !.tokenBuffer1 = IF pos = 1 THEN cc ELSE @]

\* charClass[c] as the set of its flags, as initTokenizer fills it.
charClass(c) ==
    (IF c < 32 THEN {"CTL"} ELSE {}) \cup
    (IF c >= 32 /\ c < 256 THEN {"CHR"} ELSE {}) \cup
    (IF c >= 32 /\ c < 48 THEN {"INT"} ELSE {}) \cup
    (IF c \in AscSet({"@", "A", "B", "C", "D", "E", "F", "G", "H", "I", "L",
                      "M", "P", "S", "T", "X", "Z", "b", "c", "d", "f", "r",
                      "y"}) THEN {"CPN"} ELSE {}) \cup
    (IF c = Asc["t"] THEN {"CPS"} ELSE {}) \cup
    (IF c >= Asc["0"] /\ c <= Asc["9"] THEN {"DIG"} ELSE {}) \cup
    (IF c \in AscSet({"(", ")", "+", "*", "%"}) THEN {"SCS"} ELSE {}) \cup
    (IF c \in AscSet({"(", ")", "+", "*", "#", "[", "]", "%"})
        THEN {"GRP"} ELSE {})

\* s[L] of the scanning macros (the buffer is 0-based in the code).
Buf(s, L) ==
    IF L = 1 /\ tokenBufferPos(s) < 2 THEN s.tokenBuffer1
    ELSE s.tokenBuffer[L + 1]

lec(s, P, L, C) == tokenBufferPos(s) = P /\ Buf(s, L) = C
lun(s, cc) == tokenBufferPos(s) = 1 /\ cc >= 32
les(s, P, L, C) ==
    tokenBufferPos(s) = P /\ Buf(s, L) < 256 /\ C \in charClass(Buf(s, L))
eec(s, cc, C) == tokenBufferPos(s) >= 3 /\ cc = C
ees(s, cc, C) == tokenBufferPos(s) >= 3 /\ cc < 256 /\ C \in charClass(cc)
eps(s, cc, C) ==
    /\ tokenBufferPos(s) >= 3
    /\ Buf(s, 2) \notin AscSet({"?", "!", "=", ">"})
    /\ cc < 256
    /\ C \in charClass(cc)
    /\ "INT" \notin charClass(Buf(s, tokenBufferPos(s) - 2))
epp(s) == tokenBufferPos(s) >= 3 /\ Buf(s, 2) = Asc["?"]
epe(s) == tokenBufferPos(s) >= 3 /\ Buf(s, 2) = Asc["!"]
eeq(s) == tokenBufferPos(s) >= 3 /\ Buf(s, 2) = Asc["="]
egt(s) == tokenBufferPos(s) >= 3 /\ Buf(s, 2) = Asc[">"]
esp(s) == tokenBufferPos(s) >= 4 /\ Buf(s, 2) = SP
epsp(s) == tokenBufferPos(s) >= 5 /\ Buf(s, 3) = SP
osc(s) == tokenBufferPos(s) >= 2 /\ Buf(s, 1) = Asc["]"]
ces(cc, C) == cc < 256 /\ C \in charClass(cc)
dcs(s) == tokenBufferPos(s) >= 2 /\ Buf(s, 0) = ESC /\ Buf(s, 1) = Asc["P"]

---------------------------------------------------------------------------
(* VT100 charsets.                                                         *)

vt100_graphics ==
    <<32, 9670, 9618, 9225, 9228, 9229, 9226, 176,
      177, 9252, 9227, 9496, 9488, 9484, 9492, 9532,
      63488, 63489, 9472, 63491, 63492, 9500, 9508, 9524,
      9516, 9474, 8804, 8805, 960, 8800, 163, 183>>

\* CHARSET: _charset[_currentScreen == _screen[1]].
CHARSET(s) == s._charset[s._currentScreen]

\* applyCharset as it would be if the graphics began at 0x60.
applyCharsetFrom60(s, c) ==
    IF CHARSET(s).graphic /\ 96 <= c /\ c <= 126
        THEN vt100_graphics[(c - 95) + 1]
    ELSE IF CHARSET(s).pound /\ c = Asc["#"]
        THEN 163
    ELSE c

applyCharset(s, c) ==
    IF CHARSET(s).graphic /\ 95 <= c /\ c <= 126
        THEN vt100_graphics[(c - 95) + 1]
    ELSE IF CHARSET(s).pound /\ c = Asc["#"]
        THEN 163
    ELSE c

\* qstrncpy(charset, "BBBB", 4) copies three characters and ends the
\* destination with '\0' in its fourth byte.
resetCharset(s, scrno) ==
    [s EXCEPT !._charset[scrno] =
        [cu_cs |-> 0,
         charset |-> [i \in 0..3 |-> IF i < 3 THEN Asc["B"] ELSE 0],
         sa_graphic |-> FALSE,
         sa_pound |-> FALSE,
         graphic |-> FALSE,
         pound |-> FALSE]]

useCharset(s, n) ==
    LET k == s._currentScreen
        cs == s._charset[k].charset[n % 4]
    IN  [s EXCEPT !._charset[k].cu_cs = n % 4,
                  !._charset[k].graphic = (cs = Asc["0"]),
                  !._charset[k].pound = (cs = Asc["A"])]

\* On both screens; each useCharset acts on CHARSET, the current screen's.
setCharset(s, n, cs) ==
    LET s1 == [s EXCEPT !._charset[0].charset[n % 4] = cs]
        s2 == useCharset(s1, s1._charset[0].cu_cs)
        s3 == [s2 EXCEPT !._charset[1].charset[n % 4] = cs]
    IN  useCharset(s3, s3._charset[1].cu_cs)

setAndUseCharset(s, n, cs) ==
    useCharset([s EXCEPT !._charset[s._currentScreen].charset[n % 4] = cs],
               n % 4)

setDefaultMargins(s) ==
    ScreenCall(ScreenCall(s, 0, "setDefaultMargins", <<>>),
               1, "setDefaultMargins", <<>>)

setMargins(s, t, b) ==
    ScreenCall(ScreenCall(s, 0, "setMargins", <<t, b>>),
               1, "setMargins", <<t, b>>)

\* saveCursor as it would be if it saved the charset flags only.
saveCursorCharsetOnly(s) ==
    LET k == s._currentScreen
    IN  [s EXCEPT !._charset[k].sa_graphic = s._charset[k].graphic,
                  !._charset[k].sa_pound = s._charset[k].pound]

saveCursor(s) ==
    LET k == s._currentScreen
        s1 == [s EXCEPT !._charset[k].sa_graphic = s._charset[k].graphic,
                        !._charset[k].sa_pound = s._charset[k].pound]
    IN  CurScreenCall(s1, "saveCursor", <<>>)

\* restoreCursor as it would be if it restored the cursor of the screen only.
restoreCursorScreenOnly(s) == CurScreenCall(s, "restoreCursor", <<>>)

restoreCursor(s) ==
    LET k == s._currentScreen
        s1 == [s EXCEPT !._charset[k].graphic = s._charset[k].sa_graphic,
                        !._charset[k].pound = s._charset[k].sa_pound]
    IN  CurScreenCall(s1, "restoreCursor", <<>>)

---------------------------------------------------------------------------
(* Operations of the Emulation base class used by the core.                *)

\* setScreen as it would be if it left the current screen where it is.
setScreenStay(s, n) == SelfCall(s, "setScreen", <<n>>)

\* Emulation::setScreen: _currentScreen = _screen[n & 1].
setScreen(s, n) ==
    SelfCall([s EXCEPT !._currentScreen = n % 2], "setScreen", <<n>>)

\* Emulation::setImageSize: resizes both screens; sizes below 1 are refused.
setImageSize(s, lines, columns) ==
    LET s1 == SelfCall(s, "setImageSize", <<lines, columns>>)
    IN  IF lines < 1 \/ columns < 1 THEN s1
        ELSE [s1 EXCEPT !.imageSize = [lines |-> lines, columns |-> columns]]

\* Emulation::setCodec; which = 1 for Utf8Codec, 0 for LocaleCodec, and 2
\* for the codec in use before a reset.
setCodec(s, which) == SelfCall(s, "setCodec", <<which>>)

clearHistory(s) == SelfCall(s, "clearHistory", <<>>)

clearEntireScreen(s) == CurScreenCall(s, "clearEntireScreen", <<>>)

sendString(s, bytes) == Call(s, "signal", 0, "sendData", "", <<>>, bytes)

---------------------------------------------------------------------------
(* Mode operations.                                                        *)

getMode(s, m) == s._currentModes[m]

\* clearScreenAndSetColumns as it would be if it cleared before resizing.
clearScreenThenSetColumns(s, columnCount) ==
    LET s1 == clearEntireScreen(s)
        s2 == setImageSize(s1, s.imageSize.lines, columnCount)
        s3 == setDefaultMargins(s2)
    IN  CurScreenCall(s3, "setCursorYX", <<0, 0>>)

clearScreenAndSetColumns(s, columnCount) ==
    LET s1 == setImageSize(s, s.imageSize.lines, columnCount)
        s2 == clearEntireScreen(s1)
        s3 == setDefaultMargins(s2)
    IN  CurScreenCall(s3, "setCursorYX", <<0, 0>>)

MouseTrackingModes ==
    {MODE_Mouse1000, MODE_Mouse1001, MODE_Mouse1002, MODE_Mouse1003}

MouseEncodingModes == {MODE_Mouse1005, MODE_Mouse1006, MODE_Mouse1015}

\* The switch of setMode without the cases that clear the other mouse modes.
setModeSwitchKeepOthers(s, m) ==
    CASE m \in MouseTrackingModes ->
            Signal(s, "programRequestsMouseTracking", <<Bool(TRUE)>>)
      [] OTHER -> s

\* The switch of setMode.
setModeSwitch(s, m) ==
    CASE m = MODE_132Columns ->
            IF getMode(s, MODE_Allow132Columns)
                THEN clearScreenAndSetColumns(s, 132)
                ELSE [s EXCEPT !._currentModes[m] = FALSE]
      [] m \in MouseTrackingModes ->
            Signal([s EXCEPT !._currentModes =
                        [x \in Modes |->
                            IF x = m THEN TRUE
                            ELSE IF x \in MouseTrackingModes THEN FALSE
                            ELSE @[x]]],
                   "programRequestsMouseTracking", <<Bool(TRUE)>>)
      [] m = MODE_Mouse1007 ->
            Signal(s, "enableAlternateScrolling", <<Bool(TRUE)>>)
      [] m \in MouseEncodingModes ->
            [s EXCEPT !._currentModes =
                [x \in Modes |->
                    IF x = m THEN TRUE
                    ELSE IF x \in MouseEncodingModes THEN FALSE
                    ELSE @[x]]]
      [] m = MODE_BracketedPaste ->
            Signal(s, "programBracketedPasteModeChanged", <<Bool(TRUE)>>)
      [] m = MODE_AppScreen ->
            setScreen(ScreenCall(ScreenCall(s, 1, "setDefaultRendition", <<>>),
                                 1, "clearSelection", <<>>), 1)
      [] OTHER -> s

\* The forwarding of a mode m < MODES_SCREEN (or MODE_NewLine) to both
\* screens.
forwardMode(s, m, op) ==
    IF m \in MODES_SCREEN \/ m = MODE_NewLine
        THEN Call(Call(s, "screen", 0, op, m, <<>>, <<>>),
                  "screen", 1, op, m, <<>>, <<>>)
        ELSE s

setMode(s, m) ==
    forwardMode(setModeSwitch([s EXCEPT !._currentModes[m] = TRUE], m),
                m, "setMode")

\* The switch of resetMode without the case that clears the mouse modes.
resetModeSwitchKeepOthers(s, m) ==
    CASE m \in MouseTrackingModes ->
            Signal(s, "programRequestsMouseTracking", <<Bool(FALSE)>>)
      [] OTHER -> s

\* The switch of resetMode.
resetModeSwitch(s, m) ==
    CASE m = MODE_132Columns ->
            IF getMode(s, MODE_Allow132Columns)
                THEN clearScreenAndSetColumns(s, 80)
                ELSE s
      [] m \in MouseTrackingModes ->
            Signal([s EXCEPT !._currentModes =
                        [x \in Modes |->
                            IF x \in MouseTrackingModes THEN FALSE ELSE @[x]]],
                   "programRequestsMouseTracking", <<Bool(FALSE)>>)
      [] m = MODE_Mouse1007 ->
            Signal(s, "enableAlternateScrolling", <<Bool(FALSE)>>)
      [] m = MODE_BracketedPaste ->
            Signal(s, "programBracketedPasteModeChanged", <<Bool(FALSE)>>)
      [] m = MODE_AppScreen ->
            setScreen(ScreenCall(s, 0, "clearSelection", <<>>), 0)
      [] OTHER -> s

resetMode(s, m) ==
    forwardMode(resetModeSwitch([s EXCEPT !._currentModes[m] = FALSE], m),
                m, "resetMode")

saveMode(s, m) == [s EXCEPT !._savedModes[m] = s._currentModes[m]]

\* restoreMode that looks at the current value instead of the saved one.
restoreModeFromCurrent(s, m) ==
    IF s._currentModes[m] THEN setMode(s, m) ELSE resetMode(s, m)

restoreMode(s, m) ==
    IF s._savedModes[m] THEN setMode(s, m) ELSE resetMode(s, m)

\* resetMode(m); saveMode(m) for each mode of ms, in order: each pair of
\* statements is evaluated to a state x before the next pair starts.
RECURSIVE resetAndSave(_, _)
resetAndSave(s, ms) ==
    IF ms = <<>> THEN s
    ELSE CHOOSE r \in {resetAndSave(x, Tail(ms)) :
                          x \in {saveMode(resetMode(s, Head(ms)), Head(ms))}} :
             TRUE

\* resetModes that leaves the mouse and paste modes alone.
resetModesKeepMouse(s) ==
    LET s1 == resetAndSave(s,
                  <<MODE_132Columns, MODE_AppScreen, MODE_AppCuKeys,
                    MODE_AppKeyPad>>)
    IN  setMode(resetMode(s1, MODE_NewLine), MODE_Ansi)

resetModes(s) ==
    LET s1 == resetAndSave(s,
                  <<MODE_132Columns, MODE_Mouse1000, MODE_Mouse1001,
                    MODE_Mouse1002, MODE_Mouse1003, MODE_Mouse1005,
                    MODE_Mouse1006, MODE_Mouse1015, MODE_BracketedPaste,
                    MODE_AppScreen, MODE_AppCuKeys, MODE_AppKeyPad>>)
    IN  setMode(resetMode(s1, MODE_NewLine), MODE_Ansi)

reset(s) ==
    LET s1 == resetModes(resetTokenizer(s))
        s2 == ScreenCall(resetCharset(s1, 0), 0, "reset", <<>>)
        s3 == ScreenCall(resetCharset(s2, 1), 1, "reset", <<>>)
        s4 == setCodec(s3, 2)
    IN  Signal(s4, "resetCursorStyleRequest", <<>>)

---------------------------------------------------------------------------
(* Device reports.                                                         *)

\* The code points of a sequence of one-character strings.
Codes(cs) == [i \in 1..Len(cs) |-> Asc[cs[i]]]

\* Builds the dump of the buffer and drops it; nothing else changes.
reportDecodingError(s) == SelfCall(s, "reportDecodingError", <<>>)

\* "\033[%d;%dR" of the cursor of the current screen, which Screen holds.
reportCursorPosition(s) ==
    Call(s, "signal", 0, "sendData", "CursorPosition", <<>>,
         <<ESC, Asc["["]>>)

\* reportSize as it would be with the columns before the lines.
reportSizeColumnsFirst(s) ==
    sendString(s, <<ESC>> \o Codes(<<"[", "8", ";">>)
                  \o Dec(s.imageSize.columns)
                  \o <<Asc[";"]>> \o Dec(s.imageSize.lines) \o <<Asc["t"]>>)

reportSize(s) ==
    sendString(s, <<ESC>> \o Codes(<<"[", "8", ";">>) \o Dec(s.imageSize.lines)
                  \o <<Asc[";"]>> \o Dec(s.imageSize.columns) \o <<Asc["t"]>>)

reportTerminalType(s) ==
    IF getMode(s, MODE_Ansi)
        THEN sendString(s, <<ESC>> \o Codes(<<"[", "?", "1", ";", "2", "c">>))
        ELSE sendString(s, <<ESC>> \o Codes(<<"/", "Z">>))

\* reportTertiaryAttributes as it would be without the closing ESC \.
reportTertiaryAttributesOpen(s) ==
    sendString(s, <<ESC>> \o
                  Codes(<<"P", "!", "|", "7", "E", "4", "B", "4", "4", "4",
                          "5">>))

reportTertiaryAttributes(s) ==
    sendString(s, <<ESC>> \o
                  Codes(<<"P", "!", "|", "7", "E", "4", "B", "4", "4", "4",
                          "5">>) \o <<ESC, Asc["\\"]>>)

reportSecondaryAttributes(s) ==
    IF getMode(s, MODE_Ansi)
        THEN sendString(s, <<ESC>> \o
                 Codes(<<"[", ">", "0", ";", "1", "1", "5", ";", "0", "c">>))
        ELSE sendString(s, <<ESC>> \o Codes(<<"/", "Z">>))

reportTerminalParms(s, p) ==
    sendString(s, <<ESC, Asc["["]>> \o Dec(p) \o
                  Codes(<<";", "1", ";", "1", ";", "1", "1", "2", ";", "1",
                          "1", "2", ";", "1", ";", "0", "x">>))

reportStatus(s) == sendString(s, <<ESC>> \o Codes(<<"[", "0", "n">>))

reportAnswerBack(s) == sendString(s, <<>>)

---------------------------------------------------------------------------
(* Interpreting tokens.                                                    *)

---------------------------------------------------------------------------
(* Mouse and focus events.                                                 *)

\* QString(coords, 2).toUtf8() of one coordinate below 2048.
toUtf8(c) == IF c < 128 THEN <<c>> ELSE <<192 + (c \div 64), 128 + (c % 64)>>

\* The release as it would be encoded if 1006 were treated as the others.
releaseButtonAlways(s, cb, eventType) == IF eventType = 2 THEN 3 ELSE cb

\* The release encoding as it would be if it left cb alone.
releaseButtonKept(s, cb, eventType) == cb

\* if (eventType == 2 && !getMode(MODE_Mouse1006)) cb = 3;
releaseButton(s, cb, eventType) ==
    IF eventType = 2 /\ ~getMode(s, MODE_Mouse1006) THEN 3 ELSE cb

\* The value of cb when the command is printed.
mouseButton(s, cb, eventType) ==
    LET b1 == releaseButton(s, cb, eventType)
        b2 == IF b1 >= 4 THEN b1 + 60 ELSE b1
    IN  IF (getMode(s, MODE_Mouse1002) \/ getMode(s, MODE_Mouse1003))
           /\ eventType = 1
        THEN b2 + 32 ELSE b2

sendMouseEvent(s, cb, cx, cy, eventType) ==
    LET b == mouseButton(s, cb, eventType)
        command ==
            IF getMode(s, MODE_Mouse1006)
            THEN <<ESC>> \o Codes(<<"[", "<">>) \o Dec(b) \o <<Asc[";"]>>
                 \o Dec(cx) \o <<Asc[";"]>> \o Dec(cy)
                 \o <<IF eventType = 2 THEN Asc["m"] ELSE Asc["M"]>>
            ELSE IF getMode(s, MODE_Mouse1015)
            THEN <<ESC, Asc["["]>> \o Dec(b + 32) \o <<Asc[";"]>>
                 \o Dec(cx) \o <<Asc[";"]>> \o Dec(cy) \o <<Asc["M"]>>
            ELSE IF getMode(s, MODE_Mouse1005)
            THEN IF cx <= 2015 /\ cy <= 2015
                 THEN <<ESC, Asc["["], Asc["M"], (b + 32) % 256>>
                      \o toUtf8(cx + 32) \o toUtf8(cy + 32)
                 ELSE <<>>
            ELSE IF cx <= 223 /\ cy <= 223
            THEN <<ESC, Asc["["], Asc["M"], (b + 32) % 256,
                   (cx + 32) % 256, (cy + 32) % 256>>
            ELSE <<>>
    IN  IF cx < 1 \/ cy < 1 THEN s
        ELSE IF eventType = 1 /\ getMode(s, MODE_Mouse1000) THEN s
        ELSE IF cb = 3 /\ getMode(s, MODE_Mouse1002) THEN s
        ELSE sendString(s, command)

\* focusChanged as it would be if it did not look at _reportFocusEvents.
focusChangedAlways(s, focused) ==
    sendString(s, <<ESC, Asc["["], IF focused THEN Asc["I"] ELSE Asc["O"]>>)

focusChanged(s, focused) ==
    IF s._reportFocusEvents
    THEN sendString(s, <<ESC, Asc["["],
                         IF focused THEN Asc["I"] ELSE Asc["O"]>>)
    ELSE s

COLOR_SPACE_DEFAULT == 1
COLOR_SPACE_SYSTEM == 2
COLOR_SPACE_256 == 3
COLOR_SPACE_RGB == 4

\* A call on the current Screen whose argument is a named flag.
CurScreenFlag(s, op, flag, args) ==
    Call(s, "screen", s._currentScreen, op, flag, args, <<>>)

setLineProperties(s, w, t, b) ==
    CurScreenFlag(
        CurScreenFlag(
            CurScreenFlag(s, "setLineProperty", "LINE_DOUBLEWIDTH", <<Bool(w)>>),
            "setLineProperty", "LINE_DOUBLEHEIGHT_TOP", <<Bool(t)>>),
        "setLineProperty", "LINE_DOUBLEHEIGHT_BOTTOM", <<Bool(b)>>)

\* case token_ctl(a)
processCtl(s, a) ==
    CASE a = Asc["E"] -> reportAnswerBack(s)
      [] a = Asc["G"] -> Signal(s, "bell", <<>>)
      [] a = Asc["H"] -> CurScreenCall(s, "backspace", <<>>)
      [] a = Asc["I"] -> CurScreenCall(s, "tab", <<>>)
      [] a \in AscSet({"J", "K", "L"}) -> CurScreenCall(s, "newLine", <<>>)
      [] a = Asc["M"] -> CurScreenCall(s, "toStartOfLine", <<>>)
      [] a = Asc["N"] -> useCharset(s, 1)
      [] a = Asc["O"] -> useCharset(s, 0)
      [] a \in AscSet({"X", "Z"}) ->
            CurScreenCall(s, "displayCharacter", <<9618>>)
      [] a >= Asc["@"] /\ a <= Asc["_"] -> s
      [] OTHER -> reportDecodingError(s)

\* case token_esc(a)
processEsc(s, a) ==
    CASE a = Asc["D"] -> CurScreenCall(s, "index", <<>>)
      [] a = Asc["E"] -> CurScreenCall(s, "nextLine", <<>>)
      [] a = Asc["H"] -> CurScreenCall(s, "changeTabStop", <<Bool(TRUE)>>)
      [] a = Asc["M"] -> CurScreenCall(s, "reverseIndex", <<>>)
      [] a = Asc["Z"] -> reportTerminalType(s)
      [] a = Asc["c"] -> reset(s)
      [] a = Asc["n"] -> useCharset(s, 2)
      [] a = Asc["o"] -> useCharset(s, 3)
      [] a = Asc["7"] -> saveCursor(s)
      [] a = Asc["8"] -> restoreCursor(s)
      [] a = Asc["="] -> setMode(s, MODE_AppKeyPad)
      [] a = Asc[">"] -> resetMode(s, MODE_AppKeyPad)
      [] a = Asc["<"] -> setMode(s, MODE_Ansi)
      [] OTHER -> reportDecodingError(s)

\* case token_esc_cs(a, b)
processEscCs(s, a, b) ==
    CASE a \in AscSet({"(", ")", "*", "+"}) /\ b \in AscSet({"0", "A", "B"}) ->
            setCharset(s,
                       CASE a = Asc["("] -> 0 [] a = Asc[")"] -> 1
                         [] a = Asc["*"] -> 2 [] a = Asc["+"] -> 3,
                       b)
      [] a = Asc["%"] /\ b = Asc["G"] -> setCodec(s, 1)
      [] a = Asc["%"] /\ b = Asc["@"] -> setCodec(s, 0)
      [] OTHER -> reportDecodingError(s)

\* case token_esc_de(a)
processEscDe(s, a) ==
    CASE a = Asc["3"] -> setLineProperties(s, TRUE, TRUE, FALSE)
      [] a = Asc["4"] -> setLineProperties(s, TRUE, FALSE, TRUE)
      [] a = Asc["5"] -> setLineProperties(s, FALSE, FALSE, FALSE)
      [] a = Asc["6"] -> setLineProperties(s, TRUE, FALSE, FALSE)
      [] a = Asc["8"] -> CurScreenCall(s, "helpAlign", <<>>)
      [] OTHER -> reportDecodingError(s)

\* case token_csi_ps('m', n)
processSgr(s, n, p, q) ==
    CASE n = 0 -> CurScreenCall(s, "setDefaultRendition", <<>>)
      [] n = 1 -> CurScreenFlag(s, "setRendition", "RE_BOLD", <<>>)
      [] n = 2 -> CurScreenFlag(s, "setRendition", "RE_FAINT", <<>>)
      [] n = 3 -> CurScreenFlag(s, "setRendition", "RE_ITALIC", <<>>)
      [] n = 4 -> CurScreenFlag(s, "setRendition", "RE_UNDERLINE", <<>>)
      [] n = 5 -> CurScreenFlag(s, "setRendition", "RE_BLINK", <<>>)
      [] n = 7 -> CurScreenFlag(s, "setRendition", "RE_REVERSE", <<>>)
      [] n = 8 -> CurScreenFlag(s, "setRendition", "RE_CONCEAL", <<>>)
      [] n = 9 -> CurScreenFlag(s, "setRendition", "RE_STRIKEOUT", <<>>)
      [] n = 53 -> CurScreenFlag(s, "setRendition", "RE_OVERLINE", <<>>)
      [] n \in {10, 11, 12} -> s
      [] n = 21 -> CurScreenFlag(s, "resetRendition", "RE_BOLD", <<>>)
      [] n = 22 ->
            CurScreenFlag(CurScreenFlag(s, "resetRendition", "RE_BOLD", <<>>),
                          "resetRendition", "RE_FAINT", <<>>)
      [] n = 23 -> CurScreenFlag(s, "resetRendition", "RE_ITALIC", <<>>)
      [] n = 24 -> CurScreenFlag(s, "resetRendition", "RE_UNDERLINE", <<>>)
      [] n = 25 -> CurScreenFlag(s, "resetRendition", "RE_BLINK", <<>>)
      [] n = 27 -> CurScreenFlag(s, "resetRendition", "RE_REVERSE", <<>>)
      [] n = 28 -> CurScreenFlag(s, "resetRendition", "RE_CONCEAL", <<>>)
      [] n = 29 -> CurScreenFlag(s, "resetRendition", "RE_STRIKEOUT", <<>>)
      [] n = 55 -> CurScreenFlag(s, "resetRendition", "RE_OVERLINE", <<>>)
      [] n >= 30 /\ n <= 37 ->
            CurScreenCall(s, "setForeColor", <<COLOR_SPACE_SYSTEM, n - 30>>)
      [] n = 38 -> CurScreenCall(s, "setForeColor", <<p, q>>)
      [] n = 39 -> CurScreenCall(s, "setForeColor", <<COLOR_SPACE_DEFAULT, 0>>)
      [] n >= 40 /\ n <= 47 ->
            CurScreenCall(s, "setBackColor", <<COLOR_SPACE_SYSTEM, n - 40>>)
      [] n = 48 -> CurScreenCall(s, "setBackColor", <<p, q>>)
      [] n = 49 -> CurScreenCall(s, "setBackColor", <<COLOR_SPACE_DEFAULT, 1>>)
      [] n >= 90 /\ n <= 97 ->
            CurScreenCall(s, "setForeColor", <<COLOR_SPACE_SYSTEM, n - 82>>)
      [] n >= 100 /\ n <= 107 ->
            CurScreenCall(s, "setBackColor", <<COLOR_SPACE_SYSTEM, n - 92>>)
      [] OTHER -> reportDecodingError(s)

\* case token_csi_ps(a, n)
processCsiPs(s, a, n, p, q) ==
    CASE a = Asc["t"] /\ n = 8 ->
            Signal(setImageSize(s, p, q), "imageResizeRequest", <<q, p>>)
      [] a = Asc["t"] /\ n = 18 -> reportSize(s)
      [] a = Asc["t"] /\ n \in {28, 22, 23} -> s
      [] a = Asc["K"] /\ n = 0 -> CurScreenCall(s, "clearToEndOfLine", <<>>)
      [] a = Asc["K"] /\ n = 1 -> CurScreenCall(s, "clearToBeginOfLine", <<>>)
      [] a = Asc["K"] /\ n = 2 -> CurScreenCall(s, "clearEntireLine", <<>>)
      [] a = Asc["J"] /\ n = 0 -> CurScreenCall(s, "clearToEndOfScreen", <<>>)
      [] a = Asc["J"] /\ n = 1 ->
            CurScreenCall(s, "clearToBeginOfScreen", <<>>)
      [] a = Asc["J"] /\ n = 2 -> CurScreenCall(s, "clearEntireScreen", <<>>)
      [] a = Asc["J"] /\ n = 3 -> clearHistory(s)
      [] a = Asc["g"] /\ n = 0 ->
            CurScreenCall(s, "changeTabStop", <<Bool(FALSE)>>)
      [] a = Asc["g"] /\ n = 3 -> CurScreenCall(s, "clearTabStops", <<>>)
      [] a = Asc["h"] /\ n = 4 -> CurScreenFlag(s, "setMode", MODE_Insert, <<>>)
      [] a = Asc["h"] /\ n = 20 -> setMode(s, MODE_NewLine)
      [] a = Asc["i"] /\ n = 0 -> s
      [] a = Asc["l"] /\ n = 4 ->
            CurScreenFlag(s, "resetMode", MODE_Insert, <<>>)
      [] a = Asc["l"] /\ n = 20 -> resetMode(s, MODE_NewLine)
      [] a = Asc["s"] /\ n = 0 -> saveCursor(s)
      [] a = Asc["u"] /\ n = 0 -> restoreCursor(s)
      [] a = Asc["m"] -> processSgr(s, n, p, q)
      [] a = Asc["n"] /\ n = 5 -> reportStatus(s)
      [] a = Asc["n"] /\ n = 6 -> reportCursorPosition(s)
      [] a = Asc["q"] /\ n \in 0..4 -> s
      [] a = Asc["x"] /\ n = 0 -> reportTerminalParms(s, 2)
      [] a = Asc["x"] /\ n = 1 -> reportTerminalParms(s, 3)
      [] OTHER -> reportDecodingError(s)

\* case token_csi_pn(a)
processCsiPn(s, a, p, q) ==
    CASE a = Asc["@"] -> CurScreenCall(s, "insertChars", <<p>>)
      [] a = Asc["A"] -> CurScreenCall(s, "cursorUp", <<p>>)
      [] a = Asc["B"] -> CurScreenCall(s, "cursorDown", <<p>>)
      [] a = Asc["C"] -> CurScreenCall(s, "cursorRight", <<p>>)
      [] a = Asc["D"] -> CurScreenCall(s, "cursorLeft", <<p>>)
      [] a = Asc["E"] -> CurScreenCall(s, "cursorNextLine", <<p>>)
      [] a = Asc["F"] -> CurScreenCall(s, "cursorPreviousLine", <<p>>)
      [] a = Asc["G"] -> CurScreenCall(s, "setCursorX", <<p>>)
      [] a = Asc["H"] -> CurScreenCall(s, "setCursorYX", <<p, q>>)
      [] a = Asc["I"] -> CurScreenCall(s, "tab", <<p>>)
      [] a = Asc["L"] -> CurScreenCall(s, "insertLines", <<p>>)
      [] a = Asc["M"] -> CurScreenCall(s, "deleteLines", <<p>>)
      [] a = Asc["P"] -> CurScreenCall(s, "deleteChars", <<p>>)
      [] a = Asc["S"] -> CurScreenCall(s, "scrollUp", <<p>>)
      [] a = Asc["T"] -> CurScreenCall(s, "scrollDown", <<p>>)
      [] a = Asc["X"] -> CurScreenCall(s, "eraseChars", <<p>>)
      [] a = Asc["Z"] -> CurScreenCall(s, "backtab", <<p>>)
      [] a = Asc["b"] -> CurScreenCall(s, "repeatChars", <<p>>)
      [] a = Asc["c"] -> reportTerminalType(s)
      [] a = Asc["d"] -> CurScreenCall(s, "setCursorY", <<p>>)
      [] a = Asc["f"] -> CurScreenCall(s, "setCursorYX", <<p, q>>)
      [] a = Asc["r"] -> setMargins(s, p, q)
      [] a = Asc["y"] -> s
      [] OTHER -> reportDecodingError(s)

\* The four cases 'h', 'l', 's', 'r' of a private mode kept by the
\* emulation.
modeCases(s, a, m) ==
    CASE a = Asc["h"] -> setMode(s, m)
      [] a = Asc["l"] -> resetMode(s, m)
      [] a = Asc["s"] -> saveMode(s, m)
      [] a = Asc["r"] -> restoreMode(s, m)
      [] OTHER -> reportDecodingError(s)

\* The cases of a private mode kept by the current Screen.
screenModeCases(s, a, m, withSave) ==
    CASE a = Asc["h"] -> CurScreenFlag(s, "setMode", m, <<>>)
      [] a = Asc["l"] -> CurScreenFlag(s, "resetMode", m, <<>>)
      [] a = Asc["s"] /\ withSave -> CurScreenFlag(s, "saveMode", m, <<>>)
      [] a = Asc["r"] /\ withSave -> CurScreenFlag(s, "restoreMode", m, <<>>)
      [] OTHER -> reportDecodingError(s)

\* The cases that are listed and ignored.
ignoredCases(s, a, finals) ==
    IF a \in AscSet(finals) THEN s ELSE reportDecodingError(s)

\* case token_csi_pr(a, n)
processCsiPr(s, a, n) ==
    CASE n = 1 -> modeCases(s, a, MODE_AppCuKeys)
      [] n = 2 /\ a = Asc["l"] -> resetMode(s, MODE_Ansi)
      [] n = 3 /\ a = Asc["h"] -> setMode(s, MODE_132Columns)
      [] n = 3 /\ a = Asc["l"] -> resetMode(s, MODE_132Columns)
      [] n = 4 -> ignoredCases(s, a, {"h", "l"})
      [] n = 5 -> screenModeCases(s, a, MODE_Screen, FALSE)
      [] n = 6 -> screenModeCases(s, a, MODE_Origin, TRUE)
      [] n = 7 -> screenModeCases(s, a, MODE_Wrap, TRUE)
      [] n \in {8, 9, 12, 41, 67} -> ignoredCases(s, a, {"h", "l", "s", "r"})
      [] n = 25 -> modeCases(s, a, MODE_Cursor)
      [] n = 40 /\ a = Asc["h"] -> setMode(s, MODE_Allow132Columns)
      [] n = 40 /\ a = Asc["l"] -> resetMode(s, MODE_Allow132Columns)
      [] n = 47 -> modeCases(s, a, MODE_AppScreen)
      [] n = 1000 -> modeCases(s, a, MODE_Mouse1000)
      [] n = 1001 /\ a = Asc["l"] -> resetMode(s, MODE_Mouse1001)
      [] n = 1001 -> ignoredCases(s, a, {"h", "s", "r"})
      [] n = 1002 -> modeCases(s, a, MODE_Mouse1002)
      [] n = 1003 -> modeCases(s, a, MODE_Mouse1003)
      [] n = 1004 /\ a = Asc["h"] -> [s EXCEPT !._reportFocusEvents = TRUE]
      [] n = 1004 /\ a = Asc["l"] -> [s EXCEPT !._reportFocusEvents = FALSE]
      [] n = 1005 -> modeCases(s, a, MODE_Mouse1005)
      [] n = 1006 -> modeCases(s, a, MODE_Mouse1006)
      [] n = 1007 -> modeCases(s, a, MODE_Mouse1007)
      [] n = 1015 -> modeCases(s, a, MODE_Mouse1015)
      [] n = 1034 -> ignoredCases(s, a, {"h"})
      [] n = 1047 /\ a = Asc["l"] ->
            resetMode(ScreenCall(s, 1, "clearEntireScreen", <<>>),
                      MODE_AppScreen)
      [] n = 1047 -> modeCases(s, a, MODE_AppScreen)
      [] n = 1048 /\ a \in AscSet({"h", "s"}) -> saveCursor(s)
      [] n = 1048 /\ a \in AscSet({"l", "r"}) -> restoreCursor(s)
      [] n = 1049 /\ a = Asc["h"] ->
            setMode(ScreenCall(saveCursor(s), 1, "clearEntireScreen", <<>>),
                    MODE_AppScreen)
      [] n = 1049 /\ a = Asc["l"] ->
            restoreCursor(resetMode(s, MODE_AppScreen))
      [] n = 2004 -> modeCases(s, a, MODE_BracketedPaste)
      [] OTHER -> reportDecodingError(s)

\* Enum::BlockCursor, UnderlineCursor and IBeamCursor are 0, 1 and 2.
setCursorStyleRequest(s, shape, blink) ==
    Signal(s, "setCursorStyleRequest", <<shape, Bool(blink)>>)

\* case token_csi_sp(a) and case token_csi_psp(a, n)
processCsiSp(s, a, n, isPsp) ==
    CASE a = Asc["q"] /\ ~isPsp -> setCursorStyleRequest(s, 0, TRUE)
      [] a = Asc["q"] /\ isPsp /\ n = 0 ->
            Signal(s, "resetCursorStyleRequest", <<>>)
      [] a = Asc["q"] /\ isPsp /\ n \in 1..6 ->
            setCursorStyleRequest(s, (n - 1) \div 2, n % 2 = 1)
      [] OTHER -> reportDecodingError(s)

\* case token_vt52(a)
processVt52(s, a, p, q) ==
    CASE a = Asc["A"] -> CurScreenCall(s, "cursorUp", <<1>>)
      [] a = Asc["B"] -> CurScreenCall(s, "cursorDown", <<1>>)
      [] a = Asc["C"] -> CurScreenCall(s, "cursorRight", <<1>>)
      [] a = Asc["D"] -> CurScreenCall(s, "cursorLeft", <<1>>)
      [] a = Asc["F"] -> setAndUseCharset(s, 0, Asc["0"])
      [] a = Asc["G"] -> setAndUseCharset(s, 0, Asc["B"])
      [] a = Asc["H"] -> CurScreenCall(s, "setCursorYX", <<1, 1>>)
      [] a = Asc["I"] -> CurScreenCall(s, "reverseIndex", <<>>)
      [] a = Asc["J"] -> CurScreenCall(s, "clearToEndOfScreen", <<>>)
      [] a = Asc["K"] -> CurScreenCall(s, "clearToEndOfLine", <<>>)
      [] a = Asc["Y"] -> CurScreenCall(s, "setCursorYX", <<p - 31, q - 31>>)
      [] a = Asc["Z"] -> reportTerminalType(s)
      [] a = Asc["<"] -> setMode(s, MODE_Ansi)
      [] a = Asc["="] -> setMode(s, MODE_AppKeyPad)
      [] a = Asc[">"] -> resetMode(s, MODE_AppKeyPad)
      [] OTHER -> reportDecodingError(s)

\* The switch over the token word: t, a and n are the fields that
\* token_construct packed into it.
processToken(s0, token, p, q) ==
    LET t == token[3]
        a == token[2]
        n == token[1]
        s == [s0 EXCEPT !.tokens =
                 Append(@, [token |-> token, p |-> p, q |-> q])]
    IN  CASE t = 0 /\ a = 0 /\ n = 0 ->
                CurScreenCall(s, "displayCharacter", <<p>>)
          [] t = 1 /\ n = 0 -> processCtl(s, a)
          [] t = 2 /\ n = 0 -> processEsc(s, a)
          [] t = 3 -> processEscCs(s, a, n)
          [] t = 4 /\ n = 0 -> processEscDe(s, a)
          [] t = 5 -> processCsiPs(s, a, n, p, q)
          [] t = 6 /\ n = 0 -> processCsiPn(s, a, p, q)
          [] t = 7 -> processCsiPr(s, a, n)
          [] t = 8 /\ n = 0 -> processVt52(s, a, p, q)
          [] t = 9 /\ n = 0 /\ a = Asc["c"] -> reportSecondaryAttributes(s)
          [] t = 10 /\ n = 0 /\ a = Asc["p"] -> s
          [] t = 11 /\ n = 0 -> processCsiSp(s, a, n, FALSE)
          [] t = 12 -> processCsiSp(s, a, n, TRUE)
          [] t = 13 /\ n = 0 /\ a = Asc["c"] -> reportTertiaryAttributes(s)
          [] OTHER -> reportDecodingError(s)

---------------------------------------------------------------------------
(* Session attributes (OSC) and the checksum request.                      *)

\* Built without ENABLE_DECRQCRA the checksum is 0: "\033P%d!~%04X\033\\".
processChecksumRequest(s) ==
    sendString(s, <<ESC, Asc["P"]>> \o Dec(s.argv[0])
                  \o Codes(<<"!", "~", "0", "0", "0", "0">>)
                  \o <<ESC, Asc["\\"]>>)

\* XTERM_EXTENDED::URL_LINK
URL_LINK == 56

\* Session::ProfileChange (Session.h)
ProfileChange == 50

\* The for loop that reads the attribute number: the index it stops at.
RECURSIVE attributeEnd(_, _, _)
attributeEnd(s, i, tokenSize) ==
    IF i < tokenSize /\ Buf(s, i) >= Asc["0"] /\ Buf(s, i) <= Asc["9"]
    THEN attributeEnd(s, i + 1, tokenSize)
    ELSE i

\* The attribute number read from the digits tokenBuffer[from .. to-1].
RECURSIVE attributeValue(_, _, _)
attributeValue(s, from, to) ==
    IF to <= from THEN 0
    ELSE 10 * attributeValue(s, from, to - 1) + (Buf(s, to - 1) - Asc["0"])

\* QString::indexOf(';'): 0-based, -1 when there is none.
RECURSIVE indexOf(_, _, _)
indexOf(value, c, k) ==
    IF k > Len(value) THEN -1
    ELSE IF value[k] = c THEN k - 1
    ELSE indexOf(value, c, k + 1)

CursorShapePrefix ==
    Codes(<<"C", "u", "r", "s", "o", "r", "S", "h", "a", "p", "e", "=">>)

startsWith(value, prefix) ==
    Len(value) >= Len(prefix) /\ SubSeq(value, 1, Len(prefix)) = prefix

\* value.right(1).toInt(): the last character when it is a digit, else 0.
lastDigit(value) ==
    LET c == value[Len(value)]
    IN  IF c >= Asc["0"] /\ c <= Asc["9"] THEN c - Asc["0"] ELSE 0

\* The pending map holds one <<attribute, value>> pair per attribute.
insertPending(pending, attribute, value) ==
    {e \in pending : e[1] # attribute} \cup {<<attribute, value>>}

processSessionAttributeRequest(s0, tokenSize0) ==
    LET s == SelfCall(s0, "processSessionAttributeRequest", <<tokenSize0>>)
        tokenSize == tokenSize0 - 1
        i0 == attributeEnd(s, 2, tokenSize)
        attribute == attributeValue(s, 2, i0)
        i == i0 + 1
        value == SubSeq(s.tokenBuffer, i + 1, tokenSize)
        url == SubSeq(value, indexOf(value, Asc[";"], 1) + 2, Len(value))
    IN  IF Buf(s, i0) # Asc[";"] THEN reportDecodingError(s)
        ELSE IF s.urlReading[s._currentScreen]
        THEN Call(s, "url", s._currentScreen, "setUrl", "", <<>>, url)
        ELSE IF value = <<Asc["?"]>>
        THEN Call(s, "signal", 0, "sessionAttributeRequest", "",
                  <<attribute, Buf(s, tokenSize)>>, <<>>)
        ELSE IF attribute = ProfileChange /\ startsWith(value, CursorShapePrefix)
        THEN Call(s, "signal", 0, "setCursorStyleRequest", "",
                  <<lastDigit(value)>>, <<>>)
        ELSE [s EXCEPT !._pendingSessionAttributesUpdates =
                           insertPending(@, attribute, value),
                       !.timerActive = TRUE]

\* The slot of the timer.  The keys of a QHash come in no particular order:
\* `order` is the order keys() returned them in.
RECURSIVE emitChanged(_, _)
emitChanged(s, order) ==
    IF order = <<>> THEN s
    ELSE LET e == CHOOSE x \in s._pendingSessionAttributesUpdates :
                      x[1] = Head(order)
         IN  emitChanged(Call(s, "signal", 0, "sessionAttributeChanged", "",
                              <<e[1]>>, e[2]),
                         Tail(order))

\* The slot as it would be if it emitted for the first key only.
updateSessionAttributesFirstOnly(s, order) ==
    [emitChanged(s, SubSeq(order, 1, 1))
        EXCEPT !._pendingSessionAttributesUpdates = {}]

updateSessionAttributes(s, order) ==
    [emitChanged(s, order) EXCEPT !._pendingSessionAttributesUpdates = {}]

\* _currentScreen->urlExtractor()->toggleUrlInput()
toggleUrlInput(s) ==
    LET s1 == Call(s, "url", s._currentScreen, "toggleUrlInput", "",
                   <<>>, <<>>)
    IN  [s1 EXCEPT !.urlReading[s._currentScreen] = ~@]

---------------------------------------------------------------------------
(* The tokenizer: receiveChars.                                            *)

RECURSIVE BitOr(_, _)
BitOr(a, b) ==
    IF a = 0 THEN b
    ELSE IF b = 0 THEN a
    ELSE (IF a % 2 = 1 \/ b % 2 = 1 THEN 1 ELSE 0)
         + 2 * BitOr(a \div 2, b \div 2)

\* (r << 16) | (g << 8) | b in a 32-bit int, from its two 16-bit halves.
rgbWord(r, g, b) ==
    LET lo == BitOr((g * 256) % 65536, b % 65536)
        hi == BitOr(BitOr(r % 65536, (g * 256) \div 65536), b \div 65536)
    IN  IF hi >= 32768 THEN ((hi - 65536) * 65536) + lo
        ELSE (hi * 65536) + lo

\* The loop as it would be if it dispatched every parameter on its own.
RECURSIVE csiLoopEach(_, _, _)
csiLoopEach(s, cc, i) ==
    IF i > s.argc THEN s
    ELSE csiLoopEach(processToken(s, token_csi_ps(cc, s.argv[i]), 0, 0),
                     cc, i + 1)

\* The loop as it would be if it dispatched one token for the sequence,
\* from its first parameter.
csiLoopFirst(s, cc, i) ==
    IF epp(s) THEN processToken(s, token_csi_pr(cc, s.argv[0]), 0, 0)
    ELSE IF eeq(s) THEN processToken(s, token_csi_pq(cc), 0, 0)
    ELSE IF egt(s) THEN processToken(s, token_csi_pg(cc), 0, 0)
    ELSE processToken(s, token_csi_ps(cc, s.argv[0]), 0, 0)

\* for (int i = 0; i <= argc; i++): one token per parameter.
RECURSIVE csiLoop(_, _, _)
csiLoop(s, cc, i) ==
    LET p == tokenBufferPos(s)
        a == s.argv
    IN  IF i > s.argc THEN s
        ELSE IF epp(s)
        THEN csiLoop(processToken(s, token_csi_pr(cc, a[i]), 0, 0), cc, i + 1)
        ELSE IF eeq(s)
        THEN csiLoop(processToken(s, token_csi_pq(cc), 0, 0), cc, i + 1)
        ELSE IF egt(s)
        THEN csiLoop(processToken(s, token_csi_pg(cc), 0, 0), cc, i + 1)
        ELSE IF /\ cc = Asc["m"] /\ s.argc - i >= 4
                /\ a[i] \in {38, 48} /\ a[i + 1] = 2
        THEN csiLoop(processToken(s, token_csi_ps(cc, a[i]), COLOR_SPACE_RGB,
                                  rgbWord(a[i + 2], a[i + 3], a[i + 4])),
                     cc, i + 5)
        ELSE IF /\ cc = Asc["m"] /\ s.argc - i >= 2
                /\ a[i] \in {38, 48} /\ a[i + 1] = 5
        THEN csiLoop(processToken(s, token_csi_ps(cc, a[i]), COLOR_SPACE_256,
                                  a[i + 2]),
                     cc, i + 3)
        ELSE IF p < 2 \/ "INT" \notin charClass(Buf(s, p - 2))
        THEN csiLoop(processToken(s, token_csi_ps(cc, a[i]), 0, 0), cc, i + 1)
        ELSE csiLoop(s, cc, i + 1)

\* An OSC string is complete: tokenBuffer[1] = ']' and a terminator is in.
oscString(s) == tokenBufferPos(s) > 2 /\ Buf(s, 1) = Asc["]"]

RECURSIVE receiveChars(_, _)

\* The nested call as it would be if it were not counted.
receiveCharsFlat(s, chars) == receiveChars(s, chars)

\* receiveChars(QVector<uint>{...}) called from inside receiveChars.
receiveCharsNested(s, chars) ==
    LET d == s.depth + 1
        r == receiveChars([s EXCEPT !.depth = d,
                                    !.deepest = IF d > @ THEN d ELSE @],
                          chars)
    IN  [r EXCEPT !.depth = d - 1]

\* The ANSI branch of the loop body, after addToCurrentToken(cc).
ansiStep(s, cc) ==
    LET p == tokenBufferPos(s)
        a == s.argv
    IN  IF lec(s, 1, 0, ESC) THEN s
        ELSE IF lec(s, 1, 0, ESC + 128)
        THEN receiveCharsNested([s EXCEPT !.tokenBuffer[1] = ESC],
                                <<Asc["["]>>)
        ELSE IF les(s, 2, 1, "GRP") THEN s
        ELSE IF oscString(s) /\ Buf(s, p - 2) = ESC /\ Buf(s, p - 1) = Asc["\\"]
        THEN resetTokenizer(processSessionAttributeRequest(
                 IF Buf(s, 2) = URL_LINK THEN toggleUrlInput(s) ELSE s, p - 1))
        ELSE IF oscString(s) /\ Buf(s, p - 2) = ESC
        THEN receiveCharsNested(
                 resetTokenizer(processSessionAttributeRequest(s, p - 1)),
                 <<cc>>)
        ELSE IF oscString(s) /\ Buf(s, p - 1) = BEL
        THEN resetTokenizer(processSessionAttributeRequest(s, p))
        ELSE IF osc(s) THEN s
        ELSE IF lec(s, 3, 2, Asc["?"]) THEN s
        ELSE IF lec(s, 3, 2, Asc["="]) THEN s
        ELSE IF lec(s, 3, 2, Asc[">"]) THEN s
        ELSE IF lec(s, 3, 2, Asc["!"]) THEN s
        ELSE IF lec(s, 3, 2, SP) THEN s
        ELSE IF lec(s, 4, 3, SP) THEN s
        ELSE IF lun(s, cc)
        THEN resetTokenizer(processToken(s, token_chr, applyCharset(s, cc), 0))
        ELSE IF dcs(s) THEN s
        ELSE IF lec(s, 2, 0, ESC)
        THEN resetTokenizer(processToken(s, token_esc(Buf(s, 1)), 0, 0))
        ELSE IF les(s, 3, 1, "SCS")
        THEN resetTokenizer(
                 processToken(s, token_esc_cs(Buf(s, 1), Buf(s, 2)), 0, 0))
        ELSE IF lec(s, 3, 1, Asc["#"])
        THEN resetTokenizer(processToken(s, token_esc_de(Buf(s, 2)), 0, 0))
        ELSE IF eps(s, cc, "CPN")
        THEN resetTokenizer(processToken(s, token_csi_pn(cc), a[0], a[1]))
        ELSE IF eps(s, cc, "CPS")
        THEN resetTokenizer(
                 processToken(s, token_csi_ps(cc, a[0]), a[1], a[2]))
        ELSE IF epe(s)
        THEN resetTokenizer(processToken(s, token_csi_pe(cc), 0, 0))
        ELSE IF esp(s)
        THEN resetTokenizer(processToken(s, token_csi_sp(cc), 0, 0))
        ELSE IF epsp(s)
        THEN resetTokenizer(processToken(s, token_csi_psp(cc, a[0]), 0, 0))
        ELSE IF ees(s, cc, "DIG") THEN addDigit(s, cc - Asc["0"])
        ELSE IF eec(s, cc, Asc[";"]) THEN addArgument(s)
        ELSE IF ees(s, cc, "INT") THEN s
        ELSE IF p >= 3 /\ cc = Asc["y"] /\ Buf(s, p - 2) = Asc["*"]
        THEN resetTokenizer(processChecksumRequest(s))
        ELSE resetTokenizer(csiLoop(s, cc, 0))

\* The VT52 branch of the loop body, after addToCurrentToken(cc).
vt52Step(s, cc) ==
    LET p == tokenBufferPos(s)
    IN  IF lec(s, 1, 0, ESC) THEN s
        ELSE IF les(s, 1, 0, "CHR")
        THEN resetTokenizer(processToken(s, token_chr, Buf(s, 0), 0))
        ELSE IF lec(s, 2, 1, Asc["Y"]) THEN s
        ELSE IF lec(s, 3, 1, Asc["Y"]) THEN s
        ELSE IF p < 4
        THEN resetTokenizer(processToken(s, token_vt52(Buf(s, 1)), 0, 0))
        ELSE resetTokenizer(
                 processToken(s, token_vt52(Buf(s, 1)), Buf(s, 2), Buf(s, 3)))

\* The loop body as it would be if CAN, SUB and ESC reset the tokenizer
\* inside an OSC as they do elsewhere.
receiveCharResetInOsc(s, cc) ==
    IF cc = DEL THEN s
    ELSE IF ces(cc, "CTL") /\ cc # ESC
    THEN processToken(IF cc = CAN \/ cc = SUB THEN resetTokenizer(s) ELSE s,
                      token_ctl(cc + Asc["@"]), 0, 0)
    ELSE LET s0 == IF ces(cc, "CTL") THEN resetTokenizer(s) ELSE s
             s1 == addToCurrentToken(s0, cc)
         IN  IF getMode(s1, MODE_Ansi) THEN ansiStep(s1, cc)
             ELSE vt52Step(s1, cc)

\* The loop body as it would be if every control character outside an OSC
\* reset the tokenizer, as CAN and SUB do.
receiveCharCtlResets(s, cc) ==
    IF cc = DEL THEN s
    ELSE IF ces(cc, "CTL") /\ osc(s) /\ cc # ESC /\ cc # BEL THEN s
    ELSE IF ces(cc, "CTL") /\ ~osc(s) /\ cc # ESC
    THEN processToken(resetTokenizer(s), token_ctl(cc + Asc["@"]), 0, 0)
    ELSE LET s0 == IF ces(cc, "CTL") /\ ~osc(s) THEN resetTokenizer(s) ELSE s
             s1 == addToCurrentToken(s0, cc)
         IN  IF getMode(s1, MODE_Ansi) THEN ansiStep(s1, cc)
             ELSE vt52Step(s1, cc)

\* The body of the loop over the code points of one receiveChars call.
receiveChar(s, cc) ==
    IF cc = DEL THEN s
    ELSE IF ces(cc, "CTL") /\ osc(s) /\ cc # ESC /\ cc # BEL THEN s
    ELSE IF ces(cc, "CTL") /\ ~osc(s) /\ cc # ESC
    THEN processToken(IF cc = CAN \/ cc = SUB THEN resetTokenizer(s) ELSE s,
                      token_ctl(cc + Asc["@"]), 0, 0)
    ELSE LET s0 == IF ces(cc, "CTL") /\ ~osc(s) THEN resetTokenizer(s) ELSE s
             s1 == addToCurrentToken(s0, cc)
         IN  IF getMode(s1, MODE_Ansi) THEN ansiStep(s1, cc)
             ELSE vt52Step(s1, cc)

\* The loop taking the code points of chars from the last to the first.
RECURSIVE receiveCharsLastFirst(_, _)
receiveCharsLastFirst(s, chars) ==
    IF chars = <<>> THEN s
    ELSE receiveChar(receiveCharsLastFirst(s, Tail(chars)), Head(chars))

\* The loop of receiveChars: each code point is processed to a state x
\* before the next one is taken.
receiveChars(s, chars) ==
    IF chars = <<>> THEN s
    ELSE CHOOSE r \in {receiveChars(x, Tail(chars)) :
                          x \in {receiveChar(s, Head(chars))}} : TRUE

---------------------------------------------------------------------------
(* The state after construction, and the commit of an operation.           *)

\* What the memory that the constructor does not assign can hold: two
\* contents are followed, zeroes and a pattern of other values.
Uninit == {"zero", "other"}

\* An int that was never assigned.
UninitInt(g) == IF g = "zero" THEN 0 ELSE MAX_ARGUMENT + 1

\* A code point that was never assigned.
UninitCodePoint(g) == IF g = "zero" THEN 0 ELSE Asc["Y"]

\* A CharCodes that was never assigned.
UninitCharCodes(g) ==
    IF g = "zero"
    THEN [cu_cs |-> 0, charset |-> [i \in 0..3 |-> 0], sa_graphic |-> FALSE,
          sa_pound |-> FALSE, graphic |-> FALSE, pound |-> FALSE]
    ELSE [cu_cs |-> 1, charset |-> [i \in 0..3 |-> Asc["0"]],
          sa_graphic |-> TRUE, sa_pound |-> TRUE, graphic |-> TRUE,
          pound |-> TRUE]

\* The last operation invoked: its name, its mode or final, its number.
Op(op, m, n) == [op |-> op, m |-> m, n |-> n]

\* No setMode(m); saveMode(m) pair is being followed.
NoRecord == [m |-> "", v |-> FALSE, done |-> FALSE]

\* The constructor: both mode sets are TerminalState(), the pending map is
\* empty, the timer is stopped, and initTokenizer() ends in
\* resetTokenizer().  argv[2..], tokenBuffer and _charset are not assigned.
Init ==
    /\ tokenBuffer = <<>>
    /\ \E g \in Uninit :
           /\ tokenBuffer1 = UninitCodePoint(g)
           /\ argv = [i \in 0..(MAXARGS - 1) |->
                         IF i < 2 THEN 0 ELSE UninitInt(g)]
           /\ _charset = [k \in 0..1 |-> UninitCharCodes(g)]
    /\ argvWritten = {0, 1}
    /\ argc = 0
    /\ _currentModes = TerminalState
    /\ _savedModes = TerminalState
    /\ _currentScreen = 0
    /\ imageSize = [lines |-> 40, columns |-> 80]
    /\ _pendingSessionAttributesUpdates = {}
    /\ timerActive = FALSE
    /\ _reportFocusEvents = FALSE
    /\ urlReading = [k \in 0..1 |-> FALSE]
    /\ emitted = <<>>
    /\ tokens = <<>>
    /\ lastCall = Op("constructor", "", 0)
    /\ recorded = NoRecord
    /\ calls = <<>>
    /\ log = <<>>
    /\ pendingOrder = <<>>
    /\ updates = {}

\* The state an operation leaves becomes the state of the emulation.
Commit(s) ==
    \E r \in {s} :
        /\ tokenBuffer' = r.tokenBuffer
        /\ tokenBuffer1' = r.tokenBuffer1
        /\ argv' = r.argv
        /\ argvWritten' = r.argvWritten
        /\ argc' = r.argc
        /\ _currentModes' = r._currentModes
        /\ _savedModes' = r._savedModes
        /\ _charset' = r._charset
        /\ _currentScreen' = r._currentScreen
        /\ imageSize' = r.imageSize
        /\ _pendingSessionAttributesUpdates' =
               r._pendingSessionAttributesUpdates
        /\ timerActive' = r.timerActive
        /\ _reportFocusEvents' = r._reportFocusEvents
        /\ urlReading' = r.urlReading
        /\ emitted' = r.emitted
        /\ tokens' = r.tokens

NoHistory == UNCHANGED <<calls, log, pendingOrder, updates>>

\* An operation that is neither setMode, resetMode nor saveMode ends the
\* setMode; saveMode pair being followed.
EndRecord == recorded' = NoRecord

---------------------------------------------------------------------------
(* The tokenizer under arbitrary input, one code point per call.           *)

\* Code points fed to the tokenizer: ESC, CSI introducer, a digit, the
\* parameter separator, two finals.
TokAlphabet == {ESC} \cup AscSet({"[", "9", ";", "m", "Y"})

Reset ==
    /\ Commit(reset(St))
    /\ lastCall' = Op("reset", "", 0)
    /\ EndRecord
    /\ NoHistory

TokReceive ==
    \E cc \in TokAlphabet :
        /\ Commit(receiveChars(St, <<cc>>))
        /\ lastCall' = Op("receiveChars", "", cc)
        /\ EndRecord
        /\ NoHistory

NextTok == Reset \/ TokReceive

SpecTok == Init /\ [][NextTok]_vars

\* C1: after any input the tokenizer state is within its bounds: argc is in
\* 0 .. MAXARGS-1, every argv slot assigned so far holds at most
\* MAX_ARGUMENT, and tokenBufferPos is in 0 .. MAX_TOKEN_LENGTH.
C1_TokenizerBounds ==
    /\ argc \in 0..(MAXARGS - 1)
    /\ \A i \in argvWritten : i \in DOMAIN argv /\ argv[i] \in 0..MAX_ARGUMENT
    /\ Len(tokenBuffer) \in 0..MAX_TOKEN_LENGTH

\* C1 witness: a CSI sequence has filled the buffer, used the last argv slot
\* and saturated a parameter.
C1_Witness ==
    /\ lastCall.op = "receiveChars"
    /\ Len(tokenBuffer) = MAX_TOKEN_LENGTH
    /\ argc = MAXARGS - 1
    /\ argv[argc] = MAX_ARGUMENT

---------------------------------------------------------------------------
(* The mode operations, called directly and by CSI ? Pn h/l/s/r.           *)

SetMode(M) ==
    \E m \in M :
        /\ Commit(setMode(St, m))
        /\ lastCall' = Op("setMode", m, 0)
        /\ recorded' = IF recorded.done THEN NoRecord ELSE recorded
        /\ NoHistory

ResetMode(M) ==
    \E m \in M :
        /\ Commit(resetMode(St, m))
        /\ lastCall' = Op("resetMode", m, 0)
        /\ recorded' = IF recorded.done THEN NoRecord ELSE recorded
        /\ NoHistory

SaveMode(M) ==
    \E m \in M :
        /\ Commit(saveMode(St, m))
        /\ lastCall' = Op("saveMode", m, 0)
        /\ recorded' = IF lastCall = Op("setMode", m, 0)
                          THEN [m |-> m, v |-> _currentModes[m],
                                done |-> FALSE]
                          ELSE NoRecord
        /\ NoHistory

RestoreMode(M) ==
    \E m \in M :
        /\ Commit(restoreMode(St, m))
        /\ lastCall' = Op("restoreMode", m, 0)
        /\ recorded' = IF recorded.m = m /\ ~recorded.done
                          THEN [recorded EXCEPT !.done = TRUE]
                          ELSE NoRecord
        /\ NoHistory

\* ESC [ ? Pn f
ModeChunk(n, f) == <<ESC, Asc["["], Asc["?"]>> \o Dec(n) \o <<Asc[f]>>

\* One receiveChars call that holds one private-mode sequence.
ModeSequence(Ns, Fs) ==
    \E n \in Ns, f \in Fs :
        /\ Commit(receiveChars(St, ModeChunk(n, f)))
        /\ lastCall' = Op("receiveChars", f, n)
        /\ EndRecord
        /\ NoHistory

\* The mouse modes set and reset, the ones saved and restored, and the
\* numbers that select the latter in CSI ? Pn.
MouseModes ==
    {MODE_Mouse1000, MODE_Mouse1002, MODE_Mouse1005, MODE_Mouse1006}

MouseSavedModes == {MODE_Mouse1000, MODE_Mouse1005}

MouseNumbers == {1000, 1005}

NextMouse ==
    \/ Reset
    \/ SetMode(MouseModes)
    \/ ResetMode(MouseModes)
    \/ SaveMode(MouseSavedModes)
    \/ RestoreMode(MouseSavedModes)
    \/ ModeSequence(MouseNumbers, {"h", "l", "s", "r"})

SpecMouse == Init /\ [][NextMouse]_vars

\* C2: at most one of the mouse-tracking modes 1000, 1001, 1002, 1003 is
\* set, and at most one of the mouse-encoding modes 1005, 1006, 1015.
C2_MouseModesExclusive ==
    /\ Cardinality({m \in MouseTrackingModes : _currentModes[m]}) <= 1
    /\ Cardinality({m \in MouseEncodingModes : _currentModes[m]}) <= 1

\* C2 witness: CSI ? 1000 r has just restored the saved tracking mode 1000
\* by setting it, while an encoding mode is set.
C2_Witness ==
    /\ lastCall = Op("receiveChars", "r", 1000)
    /\ _currentModes[MODE_Mouse1000]
    /\ recorded = NoRecord
    /\ _currentModes[MODE_Mouse1006]
    /\ Len(emitted) = 1
    /\ emitted[1].op = "programRequestsMouseTracking"

---------------------------------------------------------------------------
(* Saving and restoring a mode.                                            *)

SaveModes == {MODE_132Columns, MODE_Allow132Columns, MODE_Mouse1000}

NextSave ==
    \/ Reset
    \/ SetMode(SaveModes)
    \/ ResetMode(SaveModes)
    \/ SaveMode(SaveModes)
    \/ RestoreMode(SaveModes)

SpecSave == Init /\ [][NextSave]_vars

\* C3 as stated: when restoreMode(m) has ended a sequence setMode(m);
\* saveMode(m); ... whose other calls were setMode and resetMode calls, m
\* has the value that saveMode(m) recorded, for every mode m.
C3_RestoreGivesSaved ==
    recorded.done => _currentModes[recorded.m] = recorded.v

\* C3, amended: the same, except that 132Columns is off after the
\* restoreMode when Allow132Columns is off at that time.
C3_RestoreGivesSavedUnlessRefused ==
    recorded.done =>
        _currentModes[recorded.m] =
            IF /\ recorded.m = MODE_132Columns
               /\ ~_currentModes[MODE_Allow132Columns]
                THEN FALSE
                ELSE recorded.v

\* C3 witness: restoreMode(132Columns) has ended such a sequence, in which
\* 132Columns was recorded as set, by setting it and resizing the screens.
C3_Witness ==
    /\ recorded = [m |-> MODE_132Columns, v |-> TRUE, done |-> TRUE]
    /\ lastCall = Op("restoreMode", MODE_132Columns, 0)
    /\ _currentModes[MODE_132Columns]
    /\ imageSize.columns = 132
    /\ emitted # <<>>
    /\ emitted[1].op = "setImageSize"

---------------------------------------------------------------------------
(* reset() after mode changes.                                             *)

\* The number of setMode and resetMode calls followed after a reset().
MaxModeOps == 2

\* The modes reset() has to deal with.
EmulationModes ==
    {MODE_Ansi, MODE_Allow132Columns, MODE_Mouse1007, MODE_132Columns,
     MODE_Mouse1000, MODE_Mouse1001, MODE_Mouse1002, MODE_Mouse1003,
     MODE_Mouse1005, MODE_Mouse1006, MODE_Mouse1015, MODE_BracketedPaste,
     MODE_AppScreen, MODE_AppCuKeys, MODE_AppKeyPad, MODE_NewLine}

\* setMode and resetMode, counted in calls.
CountedSetMode ==
    /\ Len(calls) < MaxModeOps
    /\ \E m \in EmulationModes :
           /\ Commit(setMode(St, m))
           /\ lastCall' = Op("setMode", "", 0)
           /\ calls' = Append(calls, lastCall'.op)
    /\ EndRecord
    /\ log' = <<>>
    /\ UNCHANGED <<pendingOrder, updates>>

CountedResetMode ==
    /\ Len(calls) < MaxModeOps
    /\ \E m \in {MODE_Ansi, MODE_Allow132Columns, MODE_Mouse1007} :
           /\ Commit(resetMode(St, m))
           /\ lastCall' = Op("resetMode", "", 0)
           /\ calls' = Append(calls, lastCall'.op)
    /\ EndRecord
    /\ log' = <<>>
    /\ UNCHANGED <<pendingOrder, updates>>

\* reset(), called directly; log keeps the modes as they were before it.
CountedReset ==
    /\ Commit(reset(St))
    /\ lastCall' = Op("reset", "", 0)
    /\ calls' = <<>>
    /\ log' = <<_currentModes>>
    /\ EndRecord
    /\ UNCHANGED <<pendingOrder, updates>>

\* ESC c in one receiveChars call: RIS, which calls reset() in ANSI mode.
EscC ==
    /\ Commit(receiveChars(St, <<ESC, Asc["c"]>>))
    /\ lastCall' = Op("receiveChars", "c", 0)
    /\ calls' = IF _currentModes[MODE_Ansi] THEN <<>> ELSE calls
    /\ log' = <<_currentModes>>
    /\ EndRecord
    /\ UNCHANGED <<pendingOrder, updates>>

NextReset == CountedSetMode \/ CountedResetMode \/ CountedReset \/ EscC

SpecReset == Init /\ [][NextReset]_vars

\* reset() has just run: called directly, or by ESC c received in ANSI mode.
AfterReset ==
    \/ lastCall.op = "reset"
    \/ lastCall = Op("receiveChars", "c", 0) /\ log[1][MODE_Ansi]

\* C4: after reset(), also when ESC c triggered it, Ansi is set,
\* Allow132Columns and Mouse1007 are as they were before, and every other
\* mode of the emulation is off.
C4_ResetModes ==
    AfterReset =>
        /\ _currentModes[MODE_Ansi]
        /\ _currentModes[MODE_Allow132Columns] = log[1][MODE_Allow132Columns]
        /\ _currentModes[MODE_Mouse1007] = log[1][MODE_Mouse1007]
        /\ \A m \in EmulationModes \ {MODE_Ansi, MODE_Allow132Columns,
                                       MODE_Mouse1007} : ~_currentModes[m]

\* C4 witness: ESC c has just reset the emulation while Allow132Columns and
\* 132Columns were set.
C4_Witness ==
    /\ lastCall = Op("receiveChars", "c", 0)
    /\ log[1][MODE_Ansi]
    /\ log[1][MODE_132Columns]
    /\ _currentModes[MODE_Allow132Columns]
    /\ ~_currentModes[MODE_132Columns]

---------------------------------------------------------------------------
(* Sequences in progress: a sequence is begun on an idle tokenizer and     *)
(* code points are then fed one at a time; log holds the tokenizer as it   *)
(* was before the last code point.                                         *)

BS == 8

\* An OSC for attribute 0 whose value is k letters.
OscPrefix(k) ==
    <<ESC, Asc["]"], Asc["0"], Asc[";"]>> \o [i \in 1..k |-> Asc["x"]]

\* The beginnings of ESC, CSI, OSC, DCS, charset and VT52 sequences; the
\* OSC bodies go from two code points to one less than the buffer holds.
SeqPrefixes ==
    {<<ESC>>,
     <<ESC, Asc["["]>>,
     <<ESC, Asc["["], Asc[";"]>>,
     <<ESC, Asc["["], Asc[";"], Asc[";"]>>,
     <<ESC, Asc["P"]>>,
     <<ESC, Asc["P"], Asc["P"]>>,
     <<ESC, Asc["("]>>,
     <<ESC, Asc["Y"]>>,
     <<ESC, Asc["Y"], Asc["P"]>>}
    \cup {OscPrefix(k) : k \in 0..(MAX_TOKEN_LENGTH - 3)}

SeqAlphabet == {ESC, CAN, SUB, BS, BEL} \cup AscSet({"\\", "m"})

Before ==
    [tokenBuffer |-> tokenBuffer,
     argc |-> argc, argv |-> argv, lastCall |-> lastCall]

\* The orders in which keys() can return the keys of a QHash.
Orders(S) ==
    {o \in [1..Cardinality(S) -> S] :
        \A i, j \in 1..Cardinality(S) : o[i] = o[j] => i = j}

\* The single-shot timer that processSessionAttributeRequest started times
\* out; log keeps what was waiting for it.
TimerFire ==
    /\ timerActive
    /\ \E order \in Orders({e[1] : e \in _pendingSessionAttributesUpdates}) :
           Commit([updateSessionAttributes(St, order)
                      EXCEPT !.timerActive = FALSE])
    /\ lastCall' = Op("updateSessionAttributes", "", 0)
    /\ log' = <<[updates |-> updates, pendingOrder |-> pendingOrder,
                 pending |-> _pendingSessionAttributesUpdates]>>
    /\ updates' = {}
    /\ pendingOrder' = <<>>
    /\ EndRecord
    /\ UNCHANGED calls

\* A sequence begins once the attributes of an earlier OSC are delivered.
SeqBegin ==
    \E chars \in SeqPrefixes :
        /\ tokenBuffer = <<>>
        /\ ~timerActive
        /\ Commit(receiveChars(St, chars))
        /\ lastCall' = Op("receiveChars", "begin", 0)
        /\ log' = <<>>
        /\ EndRecord
        /\ UNCHANGED <<calls, pendingOrder, updates>>

SeqFeed ==
    \E cc \in SeqAlphabet :
        /\ Commit(receiveChars(St, <<cc>>))
        /\ lastCall' = Op("receiveChars", "feed", cc)
        /\ log' = <<Before>>
        /\ EndRecord
        /\ UNCHANGED <<calls, pendingOrder, updates>>

SeqReset ==
    /\ Commit(reset(St))
    /\ lastCall' = Op("reset", "", 0)
    /\ log' = <<>>
    /\ EndRecord
    /\ UNCHANGED <<calls, pendingOrder, updates>>

NextSeq == SeqReset \/ SeqBegin \/ SeqFeed \/ TimerFire

SpecSeq == Init /\ [][NextSeq]_vars

\* The last step fed the code point cc.
Fed(cc) == log # <<>> /\ lastCall = Op("receiveChars", "feed", cc)

\* The tokenizer is idle: tokenBufferPos = 0, argc = 0, argv[0] = argv[1] = 0.
Idle == tokenBuffer = <<>> /\ argc = 0 /\ argv[0] = 0 /\ argv[1] = 0

\* The last code point left the tokenizer as it was.
Kept ==
    /\ tokenBuffer = log[1].tokenBuffer
    /\ argc = log[1].argc
    /\ argv = log[1].argv

\* Before the last code point a sequence was in progress, an OSC or not.
WasInProgress == log[1].tokenBuffer # <<>>
WasOsc == Len(log[1].tokenBuffer) >= 2 /\ log[1].tokenBuffer[2] = Asc["]"]

CtlToken(cc) == <<[token |-> token_ctl(cc + Asc["@"]), p |-> 0, q |-> 0]>>

\* The buffer held an OSC that ended in ESC and had room for a code point.
WasEscInOsc ==
    /\ WasOsc
    /\ Len(log[1].tokenBuffer) \in 3..(MAX_TOKEN_LENGTH - 1)
    /\ log[1].tokenBuffer[Len(log[1].tokenBuffer)] = ESC

\* The number of calls of op among the calls of the last operation.
Count(op) == Cardinality({i \in 1..Len(emitted) : emitted[i].op = op})

\* C7 as the code has it: after a code point that dispatched a token other
\* than a Ctl token the tokenizer is idle; CAN and SUB outside an OSC leave
\* it idle and dispatch their Ctl token; ESC outside an OSC leaves nothing
\* but itself in the buffer, with argc = 0; any other control character
\* outside an OSC dispatches its Ctl token and leaves the sequence in
\* progress as it was; inside an OSC, CAN, SUB and the other controls but
\* BEL are dropped and leave the OSC as it was, and ESC is appended to it,
\* or, when the buffer ends in an ESC with room left, ends the OSC and
\* begins a sequence as outside an OSC.
C7_ResetWhereTheCodeResets ==
    \A cc \in SeqAlphabet :
        Fed(cc) =>
            /\ (tokens # <<>> /\ tokens[Len(tokens)].token[3] # 1) => Idle
            /\ (cc \in {CAN, SUB} /\ ~WasOsc) =>
                   Idle /\ tokens = CtlToken(cc)
            /\ (cc = ESC /\ ~WasOsc) =>
                   /\ tokenBuffer = <<ESC>>
                   /\ argc = 0 /\ argv[0] = 0 /\ argv[1] = 0
                   /\ tokens = <<>>
            /\ (cc \in {BS, BEL} /\ ~WasOsc) => Kept /\ tokens = CtlToken(cc)
            /\ (cc \in {CAN, SUB, BS} /\ WasOsc) => Kept /\ tokens = <<>>
            /\ (cc = ESC /\ WasOsc /\ ~WasEscInOsc) =>
                   /\ tokens = <<>>
                   /\ Count("processSessionAttributeRequest") = 0
                   /\ argc = log[1].argc
                   /\ Len(tokenBuffer) >= Len(log[1].tokenBuffer)
                   /\ tokenBuffer[Len(tokenBuffer)] = ESC
            /\ (cc = ESC /\ WasEscInOsc) =>
                   /\ tokens = <<>>
                   /\ Count("processSessionAttributeRequest") = 1
                   /\ tokenBuffer = <<ESC>>
                   /\ argc = 0 /\ argv[0] = 0 /\ argv[1] = 0

\* C7 as stated: every code point that dispatches a token leaves the
\* tokenizer reset, and so does CAN, SUB or ESC arriving while a sequence of
\* any kind is in progress (after ESC the buffer may hold that ESC).
C7_ResetOnEveryTokenAndInterrupt ==
    \A cc \in SeqAlphabet :
        Fed(cc) =>
            /\ tokens # <<>> => tokenBuffer = <<>> /\ argc = 0
            /\ (cc \in {CAN, SUB} /\ WasInProgress) =>
                   tokenBuffer = <<>> /\ argc = 0
            /\ (cc = ESC /\ WasInProgress) =>
                   tokenBuffer \in {<<>>, <<ESC>>} /\ argc = 0

\* C7 witness: CAN arrived in a CSI sequence that had two arguments begun;
\* its Ctl token was dispatched and the tokenizer is idle.
C7_Witness ==
    /\ Fed(CAN)
    /\ log[1].tokenBuffer = <<ESC, Asc["["], Asc[";"], Asc[";"]>>
    /\ log[1].argc = 2
    /\ tokens = CtlToken(CAN)
    /\ Idle

\* The OSC that was in progress has ended: one call of
\* processSessionAttributeRequest, and the tokenizer reset.
OscEnded ==
    /\ Count("processSessionAttributeRequest") = 1
    /\ argc = 0

\* The code point before the last was an ESC that arrived inside the OSC.
WasOscEsc == WasOsc /\ log[1].lastCall = Op("receiveChars", "feed", ESC)

\* C8: an OSC in progress, whatever the length of its body, is ended by BEL,
\* by ESC \ and by ESC followed by another printable code point:
\* processSessionAttributeRequest is called once and the tokenizer is reset,
\* and the other code point is then processed as fresh input (here m, which
\* is displayed).
C8_OscEndsOnTerminator ==
    /\ (Fed(BEL) /\ WasOsc) => OscEnded /\ tokenBuffer = <<>>
    /\ (Fed(Asc["\\"]) /\ WasOscEsc) => OscEnded /\ tokenBuffer = <<>>
    /\ (Fed(Asc["m"]) /\ WasOscEsc) =>
           /\ OscEnded /\ tokenBuffer = <<>>
           /\ Len(tokens) = 1
           /\ tokens[1].token = token_chr

\* C8 witness: ESC \ arrived after an OSC whose body left no room for both
\* in the buffer, and the OSC is still in progress.
C8_Witness ==
    /\ Fed(Asc["\\"])
    /\ WasOscEsc
    /\ Count("processSessionAttributeRequest") = 0
    /\ Len(tokenBuffer) = MAX_TOKEN_LENGTH
    /\ tokenBuffer[2] = Asc["]"]
    /\ tokenBuffer[MAX_TOKEN_LENGTH] = Asc["\\"]

---------------------------------------------------------------------------
(* Streams: receiveChars is called with one or several sequences and       *)
(* characters, calls holds what the calls since the last reset() carried   *)
(* and log what they did.                                                  *)

MaxElems == 4

OrderElements == {"red", "A", "default", "B"}

\* The code points of the elements of a stream.
OrderChars ==
    [e \in OrderElements |->
        CASE e = "red" -> <<ESC>> \o Codes(<<"[", "3", "1", "m">>)
          [] e = "default" -> <<ESC>> \o Codes(<<"[", "0", "m">>)
          [] OTHER -> <<Asc[e]>>]

\* What the token an element ends with does in processToken.
OrderEffect ==
    [e \in OrderElements |->
        CASE e = "red" -> <<<<"setForeColor", <<COLOR_SPACE_SYSTEM, 1>>>>>>
          [] e = "default" -> <<<<"setDefaultRendition", <<>>>>>>
          [] OTHER -> <<<<"displayCharacter", <<Asc[e]>>>>>>]

RECURSIVE Flat(_, _)
Flat(f, es) ==
    IF es = <<>> THEN <<>> ELSE f[Head(es)] \o Flat(f, Tail(es))

\* The vectors of one call: one element, two, or the four of
\* ESC[31m A ESC[0m B.
OrderStreams ==
    {<<e>> : e \in OrderElements}
    \cup {<<e, f>> : e \in OrderElements, f \in OrderElements}
    \cup {<<"red", "A", "default", "B">>}

OrderReceive ==
    \E es \in OrderStreams :
        /\ Len(calls) + Len(es) <= MaxElems
        /\ Commit(receiveChars(St, Flat(OrderChars, es)))
        /\ lastCall' = Op("receiveChars", "stream", Len(es))
        /\ calls' = calls \o es
        /\ log' = log \o emitted'
        /\ EndRecord
        /\ UNCHANGED <<pendingOrder, updates>>

OrderReset ==
    /\ Commit(reset(St))
    /\ lastCall' = Op("reset", "", 0)
    /\ calls' = <<>>
    /\ log' = <<>>
    /\ EndRecord
    /\ UNCHANGED <<pendingOrder, updates>>

NextOrder == OrderReset \/ OrderReceive

SpecOrder == Init /\ [][NextOrder]_vars

\* C5: in ANSI mode the calls made on the current Screen since the reset are
\* those of the elements of the stream, in the order in which the elements
\* end in the stream, however the stream was cut into receiveChars calls:
\* a character is displayed after the effect of every sequence before it
\* and before the effect of every sequence after it.
C5_StreamOrder ==
    _currentModes[MODE_Ansi] =>
        [i \in 1..Len(log) |-> <<log[i].tgt, log[i].scr, log[i].op, log[i].args>>]
        = [i \in 1..Len(Flat(OrderEffect, calls)) |->
              <<"screen", _currentScreen, Flat(OrderEffect, calls)[i][1],
                Flat(OrderEffect, calls)[i][2]>>]

\* C5 witness: ESC[31m A ESC[0m B arrived in one receiveChars call and the
\* Screen got setForeColor(system, 1), displayCharacter('A'),
\* setDefaultRendition, displayCharacter('B').
C5_Witness ==
    /\ _currentModes[MODE_Ansi]
    /\ lastCall = Op("receiveChars", "stream", 4)
    /\ calls = <<"red", "A", "default", "B">>
    /\ [i \in 1..Len(emitted) |-> emitted[i].op]
       = <<"setForeColor", "displayCharacter", "setDefaultRendition",
           "displayCharacter">>
    /\ emitted[2].args = <<Asc["A"]>>
    /\ emitted[4].args = <<Asc["B"]>>

---------------------------------------------------------------------------
(* Screen switches: a sequence that sets or resets MODE_AppScreen arrives  *)
(* alone, or between two characters in one receiveChars call.  calls holds *)
(* the characters and the sequence of that call, log the screen that was   *)
(* current before it.                                                      *)

ScreenNumbers == {47, 1047, 1049}

ScreenFinals == {"h", "l"}

ScreenLetters == AscSet({"A", "B"})

ScreenSwitch ==
    \E n \in ScreenNumbers, f \in ScreenFinals :
        /\ Commit(receiveChars(St, ModeChunk(n, f)))
        /\ lastCall' = Op("receiveChars", "switch", n)
        /\ calls' = <<>>
        /\ log' = <<>>
        /\ EndRecord
        /\ UNCHANGED <<pendingOrder, updates>>

ScreenBetween ==
    \E n \in ScreenNumbers, f \in ScreenFinals,
       c1 \in ScreenLetters, c2 \in ScreenLetters :
        /\ Commit(receiveChars(St, <<c1>> \o ModeChunk(n, f) \o <<c2>>))
        /\ lastCall' = Op("receiveChars", "between", n)
        /\ calls' = <<[first |-> c1, n |-> n, f |-> f, second |-> c2]>>
        /\ log' = <<_currentScreen>>
        /\ EndRecord
        /\ UNCHANGED <<pendingOrder, updates>>

NextScreen == OrderReset \/ ScreenSwitch \/ ScreenBetween

SpecScreen == Init /\ [][NextScreen]_vars

\* The positions of the displayCharacter calls of the last operation.
Displays == {i \in 1..Len(emitted) : emitted[i].op = "displayCharacter"}

\* C6: in ANSI mode, when CSI ? 47, 1047 or 1049 h or l lies between two
\* characters of one call, the first character is displayed, before anything
\* else, on the screen that was current before the call, and the second,
\* after everything else, on the alternate screen after h and on the primary
\* screen after l, which is then the current screen.
C6_SwitchBetweenCharacters ==
    (_currentModes[MODE_Ansi] /\ lastCall.m = "between") =>
        /\ Displays = {1, Len(emitted)}
        /\ Len(emitted) > 1
        /\ emitted[1].args = <<calls[1].first>>
        /\ emitted[1].tgt = "screen"
        /\ emitted[1].scr = log[1]
        /\ emitted[Len(emitted)].args = <<calls[1].second>>
        /\ emitted[Len(emitted)].tgt = "screen"
        /\ emitted[Len(emitted)].scr = (IF calls[1].f = "h" THEN 1 ELSE 0)
        /\ _currentScreen = (IF calls[1].f = "h" THEN 1 ELSE 0)

\* C6 witness: A ESC[?1049h B arrived while the primary screen was current:
\* A went to the primary screen and B to the alternate one.
C6_Witness ==
    /\ _currentModes[MODE_Ansi]
    /\ lastCall = Op("receiveChars", "between", 1049)
    /\ calls[1] = [first |-> Asc["A"], n |-> 1049, f |-> "h",
                   second |-> Asc["B"]]
    /\ log[1] = 0
    /\ emitted[1].scr = 0
    /\ emitted[Len(emitted)].scr = 1
    /\ emitted[Len(emitted)].args = <<Asc["B"]>>

---------------------------------------------------------------------------
(* Session attributes: OSC updates arrive, OSC 8 toggles the URL input of  *)
(* the current screen, and the timer fires.  updates holds the latest      *)
(* value of each attribute the stream has updated since the timer last     *)
(* fired, pendingOrder the keys of the pending map in the order of their   *)
(* insertion.                                                              *)

AttrIds == {0, 1}

AttrValues == {"a", "b"}

\* ESC ] Pa ; Pv BEL
AttrChunk(id, v) ==
    <<ESC, Asc["]"]>> \o Dec(id) \o <<Asc[";"], Asc[v], BEL>>

\* ESC ] 8 ; ESC \
UrlChunk == <<ESC, Asc["]"], URL_LINK, Asc[";"], ESC, Asc["\\"]>>

\* The keys of the pending map, in insertion order, after an operation.
InsertionOrder ==
    LET keys == {e[1] : e \in _pendingSessionAttributesUpdates'}
        have == {pendingOrder[i] : i \in 1..Len(pendingOrder)}
    IN  IF keys \subseteq have THEN pendingOrder
        ELSE Append(pendingOrder, CHOOSE k \in keys : k \notin have)

AttrUpdate ==
    \E id \in AttrIds, v \in AttrValues :
        /\ Commit(receiveChars(St, AttrChunk(id, v)))
        /\ lastCall' = Op("receiveChars", "update", id)
        /\ updates' = IF _currentModes[MODE_Ansi]
                          THEN insertPending(updates, id, <<Asc[v]>>)
                          ELSE updates
        /\ pendingOrder' = InsertionOrder
        /\ log' = <<>>
        /\ EndRecord
        /\ UNCHANGED calls

AttrUrl ==
    /\ Commit(receiveChars(St, UrlChunk))
    /\ lastCall' = Op("receiveChars", "url", URL_LINK)
    /\ pendingOrder' = InsertionOrder
    /\ log' = <<>>
    /\ EndRecord
    /\ UNCHANGED <<calls, updates>>

NextAttr == OrderReset \/ AttrUpdate \/ AttrUrl \/ TimerFire

SpecAttr == Init /\ [][NextAttr]_vars

\* The sessionAttributeChanged signals of the last operation, as pairs of
\* attribute and value, and those among them for an attribute.
Changed ==
    {i \in 1..Len(emitted) : emitted[i].op = "sessionAttributeChanged"}

ChangedFor(id) == {i \in Changed : emitted[i].args = <<id>>}

\* C9: when the timer fires, sessionAttributeChanged is emitted exactly once
\* for each attribute that received an OSC update since the previous
\* firing, with the value of the latest update, and for no other attribute
\* (OSC 8, the hyperlink, left aside); the pending map is empty afterwards;
\* and no receiveChars call emits sessionAttributeChanged itself.
C9_TimerDeliversEveryUpdate ==
    /\ lastCall.op = "updateSessionAttributes" =>
           /\ \A u \in log[1].updates :
                  /\ Cardinality(ChangedFor(u[1])) = 1
                  /\ \A i \in ChangedFor(u[1]) : emitted[i].text = u[2]
           /\ \A i \in Changed :
                  \/ emitted[i].args = <<URL_LINK - Asc["0"]>>
                  \/ \E u \in log[1].updates : emitted[i].args = <<u[1]>>
           /\ _pendingSessionAttributesUpdates = {}
    /\ lastCall.op = "receiveChars" => Changed = {}

\* C9 witness: the timer has fired after an update of attribute 0 and
\* emitted nothing for attribute 0.
C9_Witness ==
    /\ lastCall.op = "updateSessionAttributes"
    /\ \E u \in log[1].updates : u[1] = 0
    /\ ChangedFor(0) = {}
    /\ _pendingSessionAttributesUpdates = {}

---------------------------------------------------------------------------
(* Replies: a report is requested, and the bytes the emulation sent are    *)
(* fed back to receiveChars.  log holds the bytes sent for the request,    *)
(* calls the size of the screens when it was made.                         *)

\* ESC [ c, ESC [ > c, ESC [ = c and ESC [ 18 t.
ReplyRequests ==
    << <<ESC>> \o Codes(<<"[", "c">>),
       <<ESC>> \o Codes(<<"[", ">", "c">>),
       <<ESC>> \o Codes(<<"[", "=", "c">>),
       <<ESC>> \o Codes(<<"[", "1", "8", "t">>) >>

ReplyLines == {1, 24, 100}

ReplyColumns == {1, 80, 132}

\* The bytes of the sendData signals of a sequence of calls.
RECURSIVE SentBytes(_)
SentBytes(es) ==
    IF es = <<>> THEN <<>>
    ELSE (IF Head(es).op = "sendData" THEN Head(es).text ELSE <<>>)
         \o SentBytes(Tail(es))

ReplyResize ==
    \E l \in ReplyLines, c \in ReplyColumns :
        /\ Commit(setImageSize(St, l, c))
        /\ lastCall' = Op("setImageSize", "", 0)
        /\ log' = <<>>
        /\ calls' = <<>>
        /\ EndRecord
        /\ UNCHANGED <<pendingOrder, updates>>

ReplyRequest ==
    \E k \in 1..Len(ReplyRequests) :
        /\ Commit(receiveChars(St, ReplyRequests[k]))
        /\ lastCall' = Op("receiveChars", "request", k)
        /\ log' = <<SentBytes(emitted')>>
        /\ calls' = <<imageSize>>
        /\ EndRecord
        /\ UNCHANGED <<pendingOrder, updates>>

ReplyEcho ==
    /\ lastCall.op = "receiveChars"
    /\ lastCall.m = "request"
    /\ log[1] # <<>>
    /\ Commit(receiveChars(St, log[1]))
    /\ lastCall' = Op("receiveChars", "echo", lastCall.n)
    /\ EndRecord
    /\ UNCHANGED <<log, calls, pendingOrder, updates>>

NextReply == OrderReset \/ ReplyResize \/ ReplyRequest \/ ReplyEcho

SpecReply == Init /\ [][NextReply]_vars

\* The last operation fed back the reply to request k in ANSI mode.
Echoed(k) ==
    _currentModes[MODE_Ansi] /\ lastCall = Op("receiveChars", "echo", k)

TokenWords == [i \in 1..Len(tokens) |-> tokens[i].token]

\* C11 as stated: feeding back the replies to ESC [ c, ESC [ > c and
\* ESC [ = c in ANSI mode never reaches reportDecodingError.
C11_RepliesDecode ==
    \A k \in 1..3 : Echoed(k) => Count("reportDecodingError") = 0

\* C11 as the code has it: ESC[?1;2c gives the tokens csi_pr('c', 1) and
\* csi_pr('c', 2), which both reach reportDecodingError; ESC[>0;115;0c gives
\* three csi_pg('c') tokens, each of which sends the secondary attributes
\* again, with no decoding error; of ESC P ! | 7E4B4445 ESC \ the DCS is
\* eaten and ESC \ gives the token esc('\'), which reaches
\* reportDecodingError.  The tokenizer is idle after each.
C11_RepliesAsDecoded ==
    /\ Echoed(1) =>
           /\ log[1] = <<ESC>> \o Codes(<<"[", "?", "1", ";", "2", "c">>)
           /\ TokenWords = <<token_csi_pr(Asc["c"], 1),
                             token_csi_pr(Asc["c"], 2)>>
           /\ Count("reportDecodingError") = 2
           /\ Len(emitted) = 2
           /\ Idle
    /\ Echoed(2) =>
           /\ TokenWords = <<token_csi_pg(Asc["c"]), token_csi_pg(Asc["c"]),
                             token_csi_pg(Asc["c"])>>
           /\ Count("reportDecodingError") = 0
           /\ SentBytes(emitted) = log[1] \o log[1] \o log[1]
           /\ Len(emitted) = 3
           /\ Idle
    /\ Echoed(3) =>
           /\ log[1][Len(log[1])] = Asc["\\"]
           /\ TokenWords = <<token_esc(Asc["\\"])>>
           /\ Count("reportDecodingError") = 1
           /\ Len(emitted) = 1
           /\ Idle

\* C11 witness: ESC[?1;2c was fed back and reached reportDecodingError.
C11_Witness ==
    /\ Echoed(1)
    /\ log[1] = <<ESC>> \o Codes(<<"[", "?", "1", ";", "2", "c">>)
    /\ emitted[1].op = "reportDecodingError"

\* C12: in ANSI mode ESC[18t sends exactly ESC[8;<rows>;<cols>t for the
\* size of the screens, and those bytes fed back give the single token
\* csi_ps('t', 8) with p = rows and q = cols, which calls
\* setImageSize(rows, cols), then emits imageResizeRequest(cols, rows), and
\* sends nothing.
C12_SizeReportRoundTrip ==
    /\ (_currentModes[MODE_Ansi]
        /\ lastCall = Op("receiveChars", "request", 4)) =>
           /\ Len(emitted) = 1
           /\ emitted[1].op = "sendData"
           /\ emitted[1].text =
                  <<ESC>> \o Codes(<<"[", "8", ";">>) \o Dec(imageSize.lines)
                  \o <<Asc[";"]>> \o Dec(imageSize.columns) \o <<Asc["t"]>>
    /\ Echoed(4) =>
           /\ tokens = <<[token |-> token_csi_ps(Asc["t"], 8),
                          p |-> calls[1].lines, q |-> calls[1].columns]>>
           /\ Len(emitted) = 2
           /\ emitted[1].op = "setImageSize"
           /\ emitted[1].args = <<calls[1].lines, calls[1].columns>>
           /\ emitted[2].op = "imageResizeRequest"
           /\ emitted[2].args = <<calls[1].columns, calls[1].lines>>
           /\ SentBytes(emitted) = <<>>
           /\ imageSize = calls[1]

\* C12 witness: with 24 lines of 80 columns, ESC[8;24;80t was sent and fed
\* back, and imageResizeRequest(80, 24) was emitted.
C12_Witness ==
    /\ Echoed(4)
    /\ log[1] = <<ESC>> \o Codes(<<"[", "8", ";", "2", "4", ";", "8", "0", "t">>)
    /\ emitted[2].op = "imageResizeRequest"
    /\ emitted[2].args = <<80, 24>>

---------------------------------------------------------------------------
(* Mouse events: the mouse modes are set and reset, and the widget reports *)
(* presses, drags and releases.  calls holds the arguments of the last     *)
(* sendMouseEvent.                                                         *)

MouseEventModes ==
    {MODE_Mouse1000, MODE_Mouse1002, MODE_Mouse1003, MODE_Mouse1005,
     MODE_Mouse1006, MODE_Mouse1015}

MouseButtons == {0, 3, 4}

MouseColumns == {0, 10, 224}

MouseRows == {0, 5}

SendMouseEvent ==
    \E cb \in MouseButtons, cx \in MouseColumns, cy \in MouseRows,
       eventType \in 0..2 :
        /\ Commit(sendMouseEvent(St, cb, cx, cy, eventType))
        /\ lastCall' = Op("sendMouseEvent", "", eventType)
        /\ calls' = <<[cb |-> cb, cx |-> cx, cy |-> cy,
                       eventType |-> eventType]>>
        /\ EndRecord
        /\ UNCHANGED <<log, pendingOrder, updates>>

MouseModeOp ==
    \E m \in MouseEventModes, on \in BOOLEAN :
        /\ Commit(IF on THEN setMode(St, m) ELSE resetMode(St, m))
        /\ lastCall' = Op(IF on THEN "setMode" ELSE "resetMode", m, 0)
        /\ calls' = <<>>
        /\ EndRecord
        /\ UNCHANGED <<log, pendingOrder, updates>>

NextMouseEvent == MouseModeOp \/ SendMouseEvent

SpecMouseEvent == Init /\ [][NextMouseEvent]_vars

\* The last operation was sendMouseEvent(cb, cx, cy, eventType) with both
\* coordinates at least 1.
MouseSent ==
    /\ lastCall.op = "sendMouseEvent"
    /\ calls[1].cx >= 1
    /\ calls[1].cy >= 1

\* ESC [ <lead> b ; cx ; cy <final>
MouseReport(lead, b, final) ==
    <<ESC, Asc["["]>> \o lead \o Dec(b) \o <<Asc[";"]>> \o Dec(calls[1].cx)
    \o <<Asc[";"]>> \o Dec(calls[1].cy) \o <<Asc[final]>>

\* C13 as stated: with Mouse1006 on, every event with cx >= 1 and cy >= 1
\* sends ESC [ < cb ; cx ; cy and M for press and drag, m for release, with
\* the cb that was passed; with 1006 off and 1015 on it sends
\* ESC [ cb+32 ; cx ; cy M.
C13_MouseEncoding ==
    MouseSent =>
        /\ _currentModes[MODE_Mouse1006] =>
               SentBytes(emitted) =
                   MouseReport(<<Asc["<"]>>, calls[1].cb,
                               IF calls[1].eventType = 2 THEN "m" ELSE "M")
        /\ (~_currentModes[MODE_Mouse1006] /\ _currentModes[MODE_Mouse1015]) =>
               SentBytes(emitted) = MouseReport(<<>>, calls[1].cb + 32, "M")

\* The event is one sendMouseEvent drops: a drag while Mouse1000 is on, or
\* button 3 while Mouse1002 is on.
MouseDropped ==
    \/ calls[1].eventType = 1 /\ _currentModes[MODE_Mouse1000]
    \/ calls[1].cb = 3 /\ _currentModes[MODE_Mouse1002]

\* The button number as sent: 3 for a release unless Mouse1006 is on, 60
\* more for the buttons from 4 up (the wheel), and 32 more for a drag while
\* Mouse1002 or Mouse1003 is on.
MouseSentButton ==
    LET b1 == IF calls[1].eventType = 2 /\ ~_currentModes[MODE_Mouse1006]
              THEN 3 ELSE calls[1].cb
        b2 == IF b1 >= 4 THEN b1 + 60 ELSE b1
    IN  IF calls[1].eventType = 1
           /\ (_currentModes[MODE_Mouse1002] \/ _currentModes[MODE_Mouse1003])
        THEN b2 + 32 ELSE b2

\* C13 as the code has it: an event with cx >= 1 and cy >= 1 is dropped
\* when it is a drag under Mouse1000 or button 3 under Mouse1002; otherwise
\* one sendData is emitted, and with Mouse1006 on it carries
\* ESC [ < b ; cx ; cy and M or m, with Mouse1006 off and Mouse1015 on it
\* carries ESC [ b+32 ; cx ; cy M, where b is the button number as sent;
\* Mouse1005 and the default encoding come after these two.
C13_MouseEncodingAsSent ==
    MouseSent =>
        /\ MouseDropped => emitted = <<>>
        /\ ~MouseDropped =>
               /\ Len(emitted) = 1
               /\ emitted[1].op = "sendData"
               /\ _currentModes[MODE_Mouse1006] =>
                      emitted[1].text =
                          MouseReport(<<Asc["<"]>>, MouseSentButton,
                              IF calls[1].eventType = 2 THEN "m" ELSE "M")
               /\ (~_currentModes[MODE_Mouse1006]
                   /\ _currentModes[MODE_Mouse1015]) =>
                      emitted[1].text =
                          MouseReport(<<>>, MouseSentButton + 32, "M")
               /\ (~_currentModes[MODE_Mouse1006]
                   /\ ~_currentModes[MODE_Mouse1015]) =>
                      \/ emitted[1].text = <<>>
                      \/ SubSeq(emitted[1].text, 1, 3)
                         = <<ESC, Asc["["], Asc["M"]>>

\* C13 witness: with Mouse1006 on, the release of button 0 at column 10,
\* row 5 sent ESC[<0;10;5m.
C13_Witness ==
    /\ lastCall = Op("sendMouseEvent", "", 2)
    /\ calls[1] = [cb |-> 0, cx |-> 10, cy |-> 5, eventType |-> 2]
    /\ _currentModes[MODE_Mouse1006]
    /\ emitted[1].text =
           <<ESC>> \o Codes(<<"[", "<", "0", ";", "1", "0", ";", "5", "m">>)

\* The last operation was sendMouseEvent with both coordinates at least 1
\* while Mouse1002 was on.
MouseSent1002 == MouseSent /\ _currentModes[MODE_Mouse1002]

\* C23 as stated: while Mouse1002 is on, an event whose button code is 3
\* after the release encoding (a release without Mouse1006 has its cb
\* replaced by 3) is dropped and no bytes are sent.
C23_DroppedAfterReleaseEncoding ==
    (MouseSent1002
     /\ (IF calls[1].eventType = 2 /\ ~_currentModes[MODE_Mouse1006]
         THEN 3 ELSE calls[1].cb) = 3) =>
        SentBytes(emitted) = <<>>

\* C23 as the code has it: while Mouse1002 is on, an event passed with
\* cb = 3 is dropped and emits nothing; the test comes before the release
\* encoding, so the release of another button without Mouse1006 is sent,
\* in one sendData, with button code 3 (as 35 in the Mouse1015, Mouse1005
\* and default encodings, the last two when the coordinates fit).
C23_DroppedBeforeReleaseEncoding ==
    MouseSent1002 =>
        /\ calls[1].cb = 3 => emitted = <<>>
        /\ (calls[1].cb # 3 /\ calls[1].eventType = 2
            /\ ~_currentModes[MODE_Mouse1006]) =>
               /\ Len(emitted) = 1
               /\ emitted[1].op = "sendData"
               /\ IF _currentModes[MODE_Mouse1015]
                  THEN emitted[1].text = MouseReport(<<>>, 35, "M")
                  ELSE \/ emitted[1].text = <<>>
                       \/ SubSeq(emitted[1].text, 1, 4)
                          = <<ESC, Asc["["], Asc["M"], 35>>

\* C23 witness: with Mouse1002 on and no extension, the release of button
\* 0 at column 10, row 5 sent ESC [ M followed by 35, 42, 37.
C23_Witness ==
    /\ MouseSent1002
    /\ calls[1] = [cb |-> 0, cx |-> 10, cy |-> 5, eventType |-> 2]
    /\ SentBytes(emitted) = <<ESC, Asc["["], Asc["M"], 35, 42, 37>>

---------------------------------------------------------------------------
(* Focus: CSI ? 1004 h and l and other private-mode sequences arrive, the  *)
(* emulation is reset, and the widget reports focus changes.  log holds    *)
(* the final of the last CSI ? 1004 sequence received in ANSI mode.        *)

FocusNumbers == {2, 1004, 1007}

FocusSequence ==
    \E n \in FocusNumbers, f \in {"h", "l"} :
        /\ Commit(receiveChars(St, ModeChunk(n, f)))
        /\ lastCall' = Op("receiveChars", f, n)
        /\ log' = IF n = 1004 /\ _currentModes[MODE_Ansi] THEN <<f>> ELSE log
        /\ EndRecord
        /\ UNCHANGED <<calls, pendingOrder, updates>>

FocusChanged ==
    \E focused \in BOOLEAN :
        /\ Commit(focusChanged(St, focused))
        /\ lastCall' = Op("focusChanged", "", Bool(focused))
        /\ EndRecord
        /\ NoHistory

NextFocus == Reset \/ FocusSequence \/ FocusChanged

SpecFocus == Init /\ [][NextFocus]_vars

\* C14: focusChanged(focused) sends ESC [ I for a gain and ESC [ O for a
\* loss when the last CSI ? 1004 sequence received was CSI ? 1004 h, and
\* sends nothing when it was CSI ? 1004 l or there was none, whatever
\* else was received and whether or not the emulation was reset since.
C14_FocusReports ==
    lastCall.op = "focusChanged" =>
        IF log = <<"h">>
        THEN /\ Len(emitted) = 1
             /\ emitted[1].op = "sendData"
             /\ emitted[1].text =
                    <<ESC, Asc["["],
                      IF lastCall.n = 1 THEN Asc["I"] ELSE Asc["O"]>>
        ELSE emitted = <<>>

\* C14 witness: CSI ? 1004 h, then CSI ? 1004 l, then CSI ? 1004 h were
\* received and the loss of focus sent ESC [ O.
C14_Witness ==
    /\ lastCall = Op("focusChanged", "", 0)
    /\ log = <<"h">>
    /\ _reportFocusEvents
    /\ emitted[1].text = <<ESC, Asc["["], Asc["O"]>>

---------------------------------------------------------------------------
(* Operating System Commands: whole OSCs arrive, with an attribute id, a   *)
(* value part and each of the three endings, next to resets and the timer. *)
(* calls holds what was received and the state it arrived in.              *)

\* The digits of the attribute ids 0 (none given), 0, 8 and 80.
OscIds == {<<>>, <<Asc["0"]>>, <<URL_LINK>>, <<URL_LINK, Asc["0"]>>}

\* What follows the id: nothing, ';' with an empty value, or ';' '?'.
OscValues == {"none", "empty", "query"}

OscEnds == {"BEL", "ST", "ESC-other"}

OscChunk(id, v, e) ==
    <<ESC, Asc["]"]>> \o id
        \o (CASE v = "none" -> <<>>
              [] v = "empty" -> <<Asc[";"]>>
              [] v = "query" -> <<Asc[";"], Asc["?"]>>)
        \o (CASE e = "BEL" -> <<BEL>>
              [] e = "ST" -> <<ESC, Asc["\\"]>>
              [] e = "ESC-other" -> <<ESC, Asc["x"]>>)

\* The number the digits of an id stand for.
RECURSIVE OscIdNumber(_)
OscIdNumber(id) ==
    IF id = <<>> THEN 0
    ELSE 10 * OscIdNumber(SubSeq(id, 1, Len(id) - 1)) + (id[Len(id)] - Asc["0"])

\* An OSC that the token buffer has room for arrives.
OscReceive ==
    \E id \in OscIds, v \in OscValues, e \in OscEnds :
        /\ Len(OscChunk(id, v, e)) <= MAX_TOKEN_LENGTH
        /\ Commit(receiveChars(St, OscChunk(id, v, e)))
        /\ lastCall' = Op("receiveChars", "osc", OscIdNumber(id))
        /\ calls' = <<[id |-> id, value |-> v, end |-> e,
                       ansi |-> _currentModes[MODE_Ansi],
                       idle |-> tokenBuffer = <<>>,
                       reading |-> urlReading[_currentScreen],
                       pending |-> _pendingSessionAttributesUpdates,
                       timer |-> timerActive]>>
        /\ log' = <<>>
        /\ EndRecord
        /\ UNCHANGED <<pendingOrder, updates>>

OscTimer ==
    /\ TimerFire
    /\ calls' = <<>>

NextOsc == OrderReset \/ OscReceive \/ OscTimer

SpecOsc == Init /\ [][NextOsc]_vars

\* A whole OSC with a ';' after its id was received in ANSI mode by an idle
\* tokenizer.
OscDone ==
    /\ lastCall.op = "receiveChars" /\ lastCall.m = "osc"
    /\ calls[1].ansi /\ calls[1].idle
    /\ calls[1].value # "none"

\* C15: an OSC with attribute id 8 toggles URL input of the current screen
\* exactly once whichever of BEL, ESC \ and ESC-other ends it, and an OSC
\* with another attribute id does not toggle it.
C15_Osc8TogglesOnce ==
    OscDone =>
        /\ Count("toggleUrlInput") = (IF lastCall.n = 8 THEN 1 ELSE 0)
        /\ urlReading[_currentScreen] =
               (IF lastCall.n = 8 THEN ~calls[1].reading ELSE calls[1].reading)

\* C15 witness: an OSC with the id 80, ended by ESC \, toggled URL input.
C15_Witness ==
    /\ lastCall = Op("receiveChars", "osc", 80)
    /\ calls[1].ansi /\ calls[1].idle
    /\ calls[1].end = "ST"
    /\ Count("toggleUrlInput") = 1
    /\ urlReading[_currentScreen] # calls[1].reading

\* The sessionAttributeRequest signals of the last operation.
OscRequests ==
    {i \in 1..Len(emitted) : emitted[i].op = "sessionAttributeRequest"}

\* C16: an OSC whose value is "?" emits sessionAttributeRequest(Pa,
\* terminator) once, with BEL as the terminator when BEL ended it and ESC
\* when ESC \ or ESC-other ended it, stores nothing in the pending map and
\* does not start the timer.
C16_QueryIsForwarded ==
    OscDone /\ calls[1].value = "query" =>
        /\ Cardinality(OscRequests) = 1
        /\ \A i \in OscRequests :
               emitted[i].args =
                   <<lastCall.n, IF calls[1].end = "BEL" THEN BEL ELSE ESC>>
        /\ _pendingSessionAttributesUpdates = calls[1].pending
        /\ timerActive = calls[1].timer

\* C16 witness: ESC ] ; ? ESC \ arrived while URL input was off and
\* sessionAttributeRequest(0, ESC) was emitted.
C16_Witness ==
    /\ OscDone /\ calls[1].value = "query" /\ calls[1].end = "ST"
    /\ ~calls[1].reading
    /\ \E i \in OscRequests : emitted[i].args = <<0, ESC>>

\* C16 where the code does it: the same with URL input off on arrival.
C16_QueryWithoutUrlInput ==
    OscDone /\ calls[1].value = "query" /\ ~calls[1].reading =>
        /\ Cardinality(OscRequests) = 1
        /\ \A i \in OscRequests :
               emitted[i].args =
                   <<lastCall.n, IF calls[1].end = "BEL" THEN BEL ELSE ESC>>
        /\ _pendingSessionAttributesUpdates = calls[1].pending
        /\ timerActive = calls[1].timer

---------------------------------------------------------------------------
(* Full reset: ESC c arrives in whatever state earlier input left: a       *)
(* sequence in progress, VT52 mode, the alternate screen, a graphics       *)
(* charset, a saved cursor.  calls holds the state ESC c arrived in.       *)

RisChunks ==
    {<<ESC>>,
     <<ESC, Asc["["]>>,
     <<ESC, Asc["["], Asc["1"]>>,
     <<ESC, Asc["]"], Asc["0"], Asc[";"]>>,
     <<ESC, Asc["("], Asc["0"]>>,
     <<ESC, Asc["7"]>>,
     ModeChunk(47, "h"),
     ModeChunk(2, "l")}

RisPrepare ==
    \E chunk \in RisChunks :
        /\ Commit(receiveChars(St, chunk))
        /\ lastCall' = Op("receiveChars", "prepare", 0)
        /\ calls' = <<>>
        /\ log' = <<>>
        /\ EndRecord
        /\ UNCHANGED <<pendingOrder, updates>>

RisEscC ==
    /\ Commit(receiveChars(St, <<ESC, Asc["c"]>>))
    /\ lastCall' = Op("receiveChars", "ris", 0)
    /\ calls' = <<[tokenBuffer |-> tokenBuffer,
                   ansi |-> _currentModes[MODE_Ansi],
                   screen |-> _currentScreen,
                   graphic |-> _charset[_currentScreen].graphic]>>
    /\ log' = <<>>
    /\ EndRecord
    /\ UNCHANGED <<pendingOrder, updates>>

NextRis == OrderReset \/ RisPrepare \/ RisEscC

SpecRis == Init /\ [][NextRis]_vars

\* Screen n was reset by the last operation.
ScreenReset(n) ==
    \E i \in 1..Len(emitted) :
        /\ emitted[i].tgt = "screen" /\ emitted[i].scr = n
        /\ emitted[i].op = "reset"

\* C17: after ESC c, in whatever tokenizer and mode state it arrived, the
\* tokenizer is empty, the primary screen is the current one, both screens
\* were reset, both charset copies have 'B' in all four slots, slot 0
\* active and graphic, pound and their saved copies false, and
\* resetCursorStyleRequest was emitted exactly once.
C17_EscCResets ==
    lastCall.m = "ris" =>
        /\ tokenBuffer = <<>> /\ argc = 0
        /\ _currentScreen = 0
        /\ ScreenReset(0) /\ ScreenReset(1)
        /\ \A k \in 0..1 :
               _charset[k] = [cu_cs |-> 0,
                              charset |-> [i \in 0..3 |-> Asc["B"]],
                              sa_graphic |-> FALSE, sa_pound |-> FALSE,
                              graphic |-> FALSE, pound |-> FALSE]
        /\ Count("resetCursorStyleRequest") = 1

\* C17 witness: ESC c arrived in ANSI mode on the alternate screen with the
\* graphics charset on and a CSI sequence in progress, and the emulation
\* was reset.
C17_Witness ==
    /\ lastCall.m = "ris"
    /\ calls[1].ansi /\ calls[1].screen = 1 /\ calls[1].graphic
    /\ calls[1].tokenBuffer = <<ESC, Asc["["], Asc["1"]>>
    /\ tokenBuffer = <<>> /\ argc = 0
    /\ _currentScreen = 0
    /\ ScreenReset(0) /\ ScreenReset(1)
    /\ Count("resetCursorStyleRequest") = 1

\* C17 but for the fourth charset slot and where ESC c is the reset
\* sequence: in ANSI mode and outside an OSC.
C17_EscCOutsideOsc ==
    /\ lastCall.m = "ris"
    /\ calls[1].ansi
    /\ ~(Len(calls[1].tokenBuffer) >= 2 /\ calls[1].tokenBuffer[2] = Asc["]"])
    =>
        /\ tokenBuffer = <<>> /\ argc = 0
        /\ _currentScreen = 0
        /\ ScreenReset(0) /\ ScreenReset(1)
        /\ \A k \in 0..1 :
               _charset[k] = [cu_cs |-> 0,
                              charset |-> [i \in 0..3 |->
                                              IF i < 3 THEN Asc["B"] ELSE 0],
                              sa_graphic |-> FALSE, sa_pound |-> FALSE,
                              graphic |-> FALSE, pound |-> FALSE]
        /\ Count("resetCursorStyleRequest") = 1

---------------------------------------------------------------------------
(* Charsets: G0 is designated with ESC ( 0, ESC ( A or ESC ( B and single  *)
(* code points are displayed, next to resets, screen switches, the change  *)
(* to VT52 mode and the shift to G1.  calls holds the last designation     *)
(* while nothing but characters followed it.                               *)

\* Shift out: token_ctl('N'), useCharset(1).
SO == 14

\* The charset state of both screens after a reset.
DefaultCharsets(s) == resetCharset(resetCharset(s, 0), 1)._charset

\* Printable code points below, at the ends of, inside and above the range
\* the graphics replace, and '#'.
CharsetPoints ==
    {Asc["#"], Asc["^"], Asc["_"], Asc["grave"], Asc["a"], Asc["q"],
     Asc["x"], Asc["~"], 233}

\* What arrives: a designation of G0 (m is the charset), a code point to
\* display (m is "chr", n the code point), or a screen switch, the change
\* to VT52 mode or the shift to G1 (m is "other").
CharsetInput(m, n, chunk) == [m |-> m, n |-> n, chunk |-> chunk]

CharsetInputs ==
    {CharsetInput(cs, 0, <<ESC, Asc["("], Asc[cs]>>) : cs \in {"0", "A", "B"}}
    \cup {CharsetInput("chr", c, <<c>>) : c \in CharsetPoints}
    \cup {CharsetInput("other", 0, chunk) :
             chunk \in {ModeChunk(47, "h"), ModeChunk(47, "l"),
                        ModeChunk(2, "l"), <<SO>>}}

CharsetReceive ==
    \E in \in CharsetInputs :
        /\ Commit(receiveChars(St, in.chunk))
        /\ lastCall' = Op("receiveChars", in.m, in.n)
        /\ calls' = IF in.m = "chr" THEN calls
                    ELSE IF in.m = "other" THEN <<>>
                    ELSE <<[cs |-> in.m,
                            default |-> /\ _charset = DefaultCharsets(St)
                                        /\ _currentModes[MODE_Ansi]]>>
        /\ log' = <<>>
        /\ EndRecord
        /\ UNCHANGED <<pendingOrder, updates>>

NextCharset == OrderReset \/ CharsetReceive

SpecCharset == Init /\ [][NextCharset]_vars

\* The last operation displayed code point shown on the current screen and
\* made no other call on a screen.
DisplayedAs(shown) ==
    /\ Displays # {}
    /\ \A i \in 1..Len(emitted) :
           emitted[i].tgt = "screen" =>
               /\ emitted[i].op = "displayCharacter"
               /\ emitted[i].scr = _currentScreen
               /\ emitted[i].args = <<shown>>

\* A code point arrived after ESC ( cs, which had arrived in ANSI mode in
\* the default charset state, with nothing but characters in between.
DisplayedAfter(cs) ==
    /\ lastCall.op = "receiveChars" /\ lastCall.m = "chr"
    /\ calls # <<>> /\ calls[1].default /\ calls[1].cs = cs

\* C18: after ESC ( 0 from the default charset state a printable code point
\* c from 0x5F to 0x7E is displayed as vt100_graphics[c - 0x5F], so 'a' as
\* U+2592, 0x60 as U+25C6, 'q' as U+2500 and 'x' as U+2502, and any other
\* printable code point is displayed unchanged; after ESC ( A '#' is
\* displayed as U+00A3 and any other printable code point unchanged.
C18_GraphicsAndPound ==
    LET c == lastCall.n
    IN  /\ DisplayedAfter("0") =>
               /\ DisplayedAs(IF 95 <= c /\ c <= 126
                              THEN vt100_graphics[(c - 95) + 1] ELSE c)
               /\ c = Asc["a"] => DisplayedAs(9618)
               /\ c = Asc["grave"] => DisplayedAs(9670)
               /\ c = Asc["q"] => DisplayedAs(9472)
               /\ c = Asc["x"] => DisplayedAs(9474)
        /\ DisplayedAfter("A") =>
               DisplayedAs(IF c = Asc["#"] THEN 163 ELSE c)
        /\ DisplayedAfter("B") => DisplayedAs(c)

\* C18 witness: after ESC ( 0 and some characters '_' was displayed as a
\* blank (vt100_graphics[0]) on the alternate screen.
C18_Witness ==
    /\ DisplayedAfter("0")
    /\ lastCall.n = Asc["_"]
    /\ _currentScreen = 1
    /\ DisplayedAs(32)

---------------------------------------------------------------------------
(* The alternate screen with saved cursor: CSI ? 1049 h and l and CSI ? 47 *)
(* h and l arrive, next to resets and charset designations.  calls holds  *)
(* the state the sequence arrived in and log the operation before it.      *)

\* What arrives: CSI ? 47 or CSI ? 1049 with h or l (m is the final, n the
\* number), or a designation of G0 (m is "charset").
AltInputs ==
    {CharsetInput(f, n, ModeChunk(n, f)) : f \in {"h", "l"}, n \in {47, 1049}}
    \cup {CharsetInput("charset", 0, <<ESC, Asc["("], Asc[cs]>>) :
             cs \in {"0", "B"}}

AltSwitch ==
    \E in \in AltInputs :
        /\ Commit(receiveChars(St, in.chunk))
        /\ lastCall' = Op("receiveChars", in.m, in.n)
        /\ calls' = <<[screen |-> _currentScreen,
                       ansi |-> _currentModes[MODE_Ansi],
                       idle |-> tokenBuffer = <<>>]>>
        /\ log' = <<lastCall>>
        /\ EndRecord
        /\ UNCHANGED <<pendingOrder, updates>>

NextAlt == OrderReset \/ AltSwitch

SpecAlt == Init /\ [][NextAlt]_vars

\* The positions, among the calls of the last operation, of the calls of op
\* on screen n.
OnScreen(n, op) ==
    {i \in 1..Len(emitted) :
        /\ emitted[i].tgt = "screen" /\ emitted[i].scr = n
        /\ emitted[i].op = op}

\* The positions of the calls of setScreen(n).
SetScreens(n) ==
    {i \in 1..Len(emitted) :
        /\ emitted[i].tgt = "self" /\ emitted[i].op = "setScreen"
        /\ emitted[i].args = <<n>>}

\* CSI ? 1049 f arrived in ANSI mode with an idle tokenizer.
Alt1049(f) ==
    /\ lastCall = Op("receiveChars", f, 1049)
    /\ calls[1].ansi /\ calls[1].idle

\* C19: CSI ? 1049 h calls saveCursor on the screen that is current when it
\* arrives, then clearEntireScreen on the alternate screen, then switches
\* to the alternate screen; CSI ? 1049 l switches to the primary screen and
\* then calls restoreCursor on the primary screen.  Each of these happens
\* once and none of the other sequence's steps happens.
C19_AltScreenOrder ==
    /\ Alt1049("h") =>
           /\ \E i \in OnScreen(calls[1].screen, "saveCursor"),
                 j \in OnScreen(1, "clearEntireScreen"),
                 k \in SetScreens(1) : i < j /\ j < k
           /\ Count("saveCursor") = 1
           /\ Count("clearEntireScreen") = 1
           /\ Count("setScreen") = 1
           /\ Count("restoreCursor") = 0
           /\ _currentScreen = 1
    /\ Alt1049("l") =>
           /\ \E i \in SetScreens(0), j \in OnScreen(0, "restoreCursor") : i < j
           /\ Count("setScreen") = 1
           /\ Count("restoreCursor") = 1
           /\ Count("saveCursor") = 0
           /\ Count("clearEntireScreen") = 0
           /\ _currentScreen = 0

\* C19 witness: CSI ? 1049 l arrived on the alternate screen right after
\* CSI ? 1049 h, switched to the primary screen and restored its cursor.
C19_Witness ==
    /\ Alt1049("l")
    /\ log = <<Op("receiveChars", "h", 1049)>>
    /\ calls[1].screen = 1
    /\ _currentScreen = 0
    /\ OnScreen(0, "restoreCursor") # {}

---------------------------------------------------------------------------
(* Keyboard: sendKeyEvent.  The view, its session controller and the key   *)
(* translator are objects outside the emulation; what they answer is an    *)
(* input of each call.                                                     *)

\* "\030": the first byte of the prefix for the Meta modifier.
CAN_OCT == 24

\* The text i18n returns when there is no key translator, which depends on
\* the language: any text of printable characters; this one is short.
TranslatorError == Codes(<<"N", "o", ".">>)

\* _codec->fromUnicode(text), for the UTF-8 codec.
RECURSIVE fromUnicode(_)
fromUnicode(text) ==
    IF text = <<>> THEN <<>>
    ELSE toUtf8(Head(text)) \o fromUnicode(Tail(text))

\* receiveData as it would be if it dropped the bytes.
receiveDataDropped(s, text) == s

\* Emulation::receiveData: decodes the bytes and hands them to receiveChars.
receiveData(s, text) ==
    receiveChars(SelfCall(s, "receiveData", <<>>), text)

\* eraseChar: the first character of the text bound to Backspace, or '\b'.
eraseChar(translator) ==
    IF Len(translator.backspace) > 0 THEN translator.backspace[1] ELSE BS

\* Q_EMIT flowControlKeyPressed for Ctrl+S and for Ctrl+Q and Ctrl+C.
flowControl(s, event) ==
    IF "Control" \notin event.modifiers THEN s
    ELSE IF event.key = "S" THEN Signal(s, "flowControlKeyPressed", <<1>>)
    ELSE IF event.key \in {"Q", "C"}
        THEN Signal(s, "flowControlKeyPressed", <<0>>)
    ELSE s

\* The call of scrollScreenWindow that a command makes, if any.
scrollCommand(s, command) ==
    LET scroll(m, n) == Call(s, "view", 0, "scrollScreenWindow", m, n, <<>>)
    IN  IF "ScrollPageUp" \in command THEN scroll("ScrollPages", <<-1>>)
        ELSE IF "ScrollPageDown" \in command THEN scroll("ScrollPages", <<1>>)
        ELSE IF "ScrollLineUp" \in command THEN scroll("ScrollLines", <<-1>>)
        ELSE IF "ScrollLineDown" \in command THEN scroll("ScrollLines", <<1>>)
        ELSE IF "ScrollUpToTop" \in command THEN scroll("ScrollToTop", <<>>)
        ELSE IF "ScrollDownToBottom" \in command
            THEN scroll("ScrollToBottom", <<>>)
        ELSE s

\* The bytes put before the text for Alt and for Meta.
modifierPrefix(event, entry) ==
    (IF /\ "Meta" \in event.modifiers
        /\ ~("Meta" \in entry.wants \/ "Any" \in entry.wants)
        /\ event.text # <<>>
     THEN <<CAN_OCT, Asc["@"], Asc["s"]>> ELSE <<>>)
    \o
    (IF /\ "Alt" \in event.modifiers
        /\ ~("Alt" \in entry.wants \/ "Any" \in entry.wants)
        /\ event.text # <<>>
     THEN <<ESC>> ELSE <<>>)

\* textToSend when the translator is there.
textToSend(event, translator) ==
    LET entry == translator.entry
    IN  modifierPrefix(event, entry) \o
        (IF entry.command # {}
            THEN IF "Erase" \in entry.command
                    THEN <<eraseChar(translator)>> ELSE <<>>
         ELSE IF entry.text # <<>> THEN entry.text
         ELSE fromUnicode(event.text))

\* sendKeyEvent as it would be if it sent the data of a read-only session
\* too.
sendKeyEventAlways(s, event, view, translator) ==
    LET s1 == IF view # "readOnly" THEN flowControl(s, event) ELSE s
    IN  IF translator.present
        THEN LET s2 == IF translator.entry.command # {} /\ view # "none"
                       THEN scrollCommand(s1, translator.entry.command)
                       ELSE s1
             IN  Call(s2, "signal", 0, "sendData", "", <<>>,
                      textToSend(event, translator))
        ELSE IF view # "readOnly"
            THEN CHOOSE r \in {receiveData(x, TranslatorError) :
                                   x \in {reset(s1)}} : TRUE
        ELSE s1

\* view is "none" without a current view, "plain" for a view without a
\* session controller, and "readOnly" or "writable" as the controller says.
sendKeyEvent(s, event, view, translator) ==
    LET isReadOnly == view = "readOnly"
        s1 == IF ~isReadOnly THEN flowControl(s, event) ELSE s
    IN  IF translator.present
        THEN LET s2 == IF translator.entry.command # {} /\ view # "none"
                       THEN scrollCommand(s1, translator.entry.command)
                       ELSE s1
             IN  IF ~isReadOnly
                 THEN Call(s2, "signal", 0, "sendData", "", <<>>,
                           textToSend(event, translator))
                 ELSE s2
        ELSE IF ~isReadOnly
            THEN CHOOSE r \in {receiveData(x, TranslatorError) :
                                   x \in {reset(s1)}} : TRUE
        ELSE s1

KeyEvent(key, modifiers, text) ==
    [key |-> key, modifiers |-> modifiers, text |-> text]

\* Ctrl+S, Ctrl+Q, Ctrl+C and Ctrl+Alt+A with the control characters they
\* type, a key without text, and A plain, with Alt and with Meta.
KeyEvents ==
    {KeyEvent("S", {"Control"}, <<19>>),
     KeyEvent("Q", {"Control"}, <<17>>),
     KeyEvent("C", {"Control"}, <<3>>),
     KeyEvent("A", {"Control", "Alt"}, <<1>>),
     KeyEvent("S", {}, <<>>),
     KeyEvent("A", {}, <<Asc["a"]>>),
     KeyEvent("A", {"Alt"}, <<Asc["a"]>>),
     KeyEvent("A", {"Meta"}, <<233>>)}

KeyTranslator(present, command, text, wants, backspace) ==
    [present |-> present,
     entry |-> [command |-> command, text |-> text, wants |-> wants],
     backspace |-> backspace]

\* No translator; a translator without a binding for the key; bindings
\* with a text, with and without a claim on the modifiers; bindings with
\* commands, with and without a text bound to Backspace.
KeyTranslators ==
    {KeyTranslator(FALSE, {}, <<>>, {}, <<>>),
     KeyTranslator(TRUE, {}, <<>>, {}, <<>>),
     KeyTranslator(TRUE, {}, <<Asc["x"]>>, {"Alt"}, <<>>),
     KeyTranslator(TRUE, {}, <<Asc["x"]>>, {"Any"}, <<>>),
     KeyTranslator(TRUE, {"Erase"}, <<>>, {}, <<>>),
     KeyTranslator(TRUE, {"Erase"}, <<>>, {}, <<DEL>>),
     KeyTranslator(TRUE, {"ScrollPageUp"}, <<>>, {}, <<>>),
     KeyTranslator(TRUE, {"Erase", "ScrollLineDown"}, <<>>, {}, <<DEL>>)}

KeyViews == {"none", "plain", "readOnly", "writable"}

SendKeyEvent ==
    \E event \in KeyEvents, view \in KeyViews, translator \in KeyTranslators :
        /\ Commit(sendKeyEvent(St, event, view, translator))
        /\ lastCall' = Op("sendKeyEvent", event.key, Bool(translator.present))
        /\ calls' = <<[view |-> view, modifiers |-> event.modifiers]>>
        /\ log' = <<>>
        /\ EndRecord
        /\ UNCHANGED <<pendingOrder, updates>>

NextKey == OrderReset \/ SendKeyEvent

SpecKey == Init /\ [][NextKey]_vars

\* C20: for a read-only session sendKeyEvent emits neither sendData nor
\* flowControlKeyPressed, whatever the key event and with or without a key
\* translator; for a session that is not read-only and with a key
\* translator it emits sendData exactly once.
C20_ReadOnlySendsNothing ==
    lastCall.op = "sendKeyEvent" =>
        /\ calls[1].view = "readOnly" =>
               /\ Count("sendData") = 0
               /\ Count("flowControlKeyPressed") = 0
        /\ calls[1].view # "readOnly" /\ lastCall.n = 1 =>
               Count("sendData") = 1

\* C20 witness: Ctrl+S arrived for a read-only session with a key
\* translator whose entry scrolls the view; the view was scrolled and
\* neither sendData nor flowControlKeyPressed was emitted.
C20_Witness ==
    /\ lastCall = Op("sendKeyEvent", "S", 1)
    /\ calls[1].view = "readOnly"
    /\ "Control" \in calls[1].modifiers
    /\ Count("scrollScreenWindow") = 1
    /\ Count("sendData") = 0
    /\ Count("flowControlKeyPressed") = 0

\* C20, the writable case reached: Ctrl+S of a writable session with a key
\* translator emitted flowControlKeyPressed and one sendData.
C20_WritableReached ==
    /\ lastCall = Op("sendKeyEvent", "S", 1)
    /\ calls[1].view = "writable"
    /\ "Control" \in calls[1].modifiers
    /\ Count("flowControlKeyPressed") = 1
    /\ Count("sendData") = 1

\* sendKeyEvent was called without a key translator.
NoTranslator == lastCall.op = "sendKeyEvent" /\ lastCall.n = 0

\* The last operation reset the emulation and then fed the error message
\* to the incoming data, which displayed it on the primary screen.
ResetThenMessage ==
    /\ Count("resetCursorStyleRequest") = 1
    /\ Count("receiveData") = 1
    /\ \A i, j \in 1..Len(emitted) :
           /\ emitted[i].op = "resetCursorStyleRequest"
           /\ emitted[j].op = "receiveData"
           => i < j
    /\ [k \in 1..Cardinality(Displays) |->
           emitted[(Len(emitted) - Cardinality(Displays)) + k].args]
           = [k \in 1..Len(TranslatorError) |-> <<TranslatorError[k]>>]
    /\ \A i \in Displays : emitted[i].scr = 0
    /\ _currentScreen = 0
    /\ tokenBuffer = <<>>

\* C21 as stated: without a key translator sendKeyEvent resets the
\* emulation, feeds the error message to the incoming data and emits no
\* sendData, read-only or not.
C21_NoTranslatorResets ==
    NoTranslator => ResetThenMessage /\ Count("sendData") = 0

\* C21 as the code has it: without a key translator sendKeyEvent emits no
\* sendData; unless the session is read-only it resets the emulation and
\* then feeds the error message to the incoming data; for a read-only
\* session it does nothing at all.
C21_NoTranslatorUnlessReadOnly ==
    NoTranslator =>
        /\ Count("sendData") = 0
        /\ IF calls[1].view = "readOnly" THEN emitted = <<>>
           ELSE ResetThenMessage

\* C21 witness: a key event of a writable session without a key translator
\* reset the emulation and displayed the message.
C21_Witness ==
    /\ NoTranslator
    /\ calls[1].view = "writable"
    /\ ResetThenMessage
    /\ Count("sendData") = 0

---------------------------------------------------------------------------
(* Charset state: designations, shifts, a VT52 charset sequence, screen    *)
(* switches and the changes between ANSI and VT52 mode arrive, next to     *)
(* resets.  Only the last four inputs change the screen or the mode they   *)
(* arrive in.  log is empty until the first reset.                         *)

\* Shift in: token_ctl('O'), useCharset(0).
SI == 15

CsInputs ==
    {CharsetInput("designate", 0, <<ESC, Asc["("], Asc["0"]>>),
     CharsetInput("designate", 1, <<ESC, Asc["("], Asc["A"]>>),
     CharsetInput("shift", 1, <<SO>>),
     CharsetInput("shift", 0, <<SI>>),
     CharsetInput("shift", 3, <<ESC, Asc["o"]>>),
     CharsetInput("vt52set", 0, <<ESC, Asc["F"]>>),
     CharsetInput("screen", 1, ModeChunk(47, "h")),
     CharsetInput("screen", 0, ModeChunk(47, "l")),
     CharsetInput("vt52", 0, ModeChunk(2, "l")),
     CharsetInput("ansi", 0, <<ESC, Asc["<"]>>)}

CsReceive ==
    \E in \in CsInputs :
        /\ Commit(receiveChars(St, in.chunk))
        /\ lastCall' = Op("receiveChars", in.m, in.n)
        /\ EndRecord
        /\ UNCHANGED <<calls, log, pendingOrder, updates>>

\* reset(); log tells from then on that the emulation was reset.
CsReset ==
    /\ Commit(reset(St))
    /\ lastCall' = Op("reset", "", 0)
    /\ log' = <<"reset">>
    /\ EndRecord
    /\ UNCHANGED <<calls, pendingOrder, updates>>

NextCs == CsReset \/ CsReceive

SpecCs == Init /\ [][NextCs]_vars

(* Saved charset flags: designations, shifts, ESC 7, ESC 8 and screen      *)
(* switches arrive, next to resets.  calls holds, for each screen, the     *)
(* graphic and pound flags at the last ESC 7 received on it in ANSI mode   *)
(* since the reset (<<>> when there was none).                             *)

CsSaveInputs ==
    {CharsetInput("designate", 0, <<ESC, Asc["("], Asc["0"]>>),
     CharsetInput("designate", 0, <<ESC, Asc["("], Asc["A"]>>),
     CharsetInput("shift", 0, <<SO>>),
     CharsetInput("shift", 0, <<SI>>),
     CharsetInput("shift", 0, <<ESC, Asc["o"]>>),
     CharsetInput("save", 0, <<ESC, Asc["7"]>>),
     CharsetInput("restore", 0, <<ESC, Asc["8"]>>),
     CharsetInput("screen", 0, ModeChunk(47, "h")),
     CharsetInput("screen", 0, ModeChunk(47, "l"))}

\* The flags saved for screen k, as calls has them.
SavedFlags(k) == IF calls = <<>> THEN <<>> ELSE calls[k + 1]

CsSaveReceive ==
    \E in \in CsSaveInputs :
        /\ Commit(receiveChars(St, in.chunk))
        /\ lastCall' = Op("receiveChars", in.m, in.n)
        /\ calls' =
               IF in.m = "save" /\ _currentModes[MODE_Ansi]
               THEN [k \in 1..2 |->
                        IF k = _currentScreen + 1
                        THEN <<CHARSET(St).graphic, CHARSET(St).pound>>
                        ELSE SavedFlags(k - 1)]
               ELSE calls
        /\ log' = <<>>
        /\ EndRecord
        /\ UNCHANGED <<pendingOrder, updates>>

NextCsSave == OrderReset \/ CsSaveReceive

SpecCsSave == Init /\ [][NextCsSave]_vars

\* The designator in the active slot of the charset copy of screen k.
ActiveDesignator(k) == _charset[k].charset[_charset[k].cu_cs]

\* C22: once the emulation was reset, for both charset copies graphic is
\* true exactly when the designator in the active slot is '0' and pound
\* exactly when it is 'A'.
C22_FlagsFollowActiveSlot ==
    log # <<>> =>
        \A k \in 0..1 :
            /\ _charset[k].graphic = (ActiveDesignator(k) = Asc["0"])
            /\ _charset[k].pound = (ActiveDesignator(k) = Asc["A"])

\* C22 witness: ESC ( 0 arrived on the primary screen in ANSI mode; the
\* primary copy has graphic set with '0' in its active slot, and the
\* alternate copy has '0' in its active slot too but graphic off.
C22_Witness ==
    /\ log # <<>>
    /\ lastCall = Op("receiveChars", "designate", 0)
    /\ _currentModes[MODE_Ansi] /\ _currentScreen = 0
    /\ ActiveDesignator(0) = Asc["0"] /\ _charset[0].graphic
    /\ ActiveDesignator(1) = Asc["0"] /\ ~_charset[1].graphic

\* C22 for the copy of the current screen: after every designation and
\* shift recognised in ANSI mode and every VT52 charset sequence recognised
\* in VT52 mode, once the emulation was reset, the flags of the current
\* screen's copy follow its active slot.
C22_CurrentCopyAfterUse ==
    /\ log # <<>>
    /\ lastCall.op = "receiveChars"
    /\ \/ lastCall.m \in {"designate", "shift"} /\ _currentModes[MODE_Ansi]
       \/ lastCall.m = "vt52set" /\ ~_currentModes[MODE_Ansi]
    =>
        /\ CHARSET(St).graphic = (ActiveDesignator(_currentScreen) = Asc["0"])
        /\ CHARSET(St).pound = (ActiveDesignator(_currentScreen) = Asc["A"])

\* ESC 8 arrived in ANSI mode on a screen on which ESC 7 had arrived in
\* ANSI mode since the reset.
Restored ==
    /\ lastCall = Op("receiveChars", "restore", 0)
    /\ _currentModes[MODE_Ansi]
    /\ SavedFlags(_currentScreen) # <<>>

\* C29: after ESC 7 and a later ESC 8 on the same screen, whatever
\* designations and shifts came in between, the graphic and pound flags
\* of that screen's charset copy are the ones it had when ESC 7 arrived.
C29_RestoreGivesSavedFlags ==
    Restored =>
        /\ <<CHARSET(St).graphic, CHARSET(St).pound>>
               = SavedFlags(_currentScreen)
        /\ OnScreen(_currentScreen, "restoreCursor") # {}

\* C29 witness: ESC 7 arrived with the flags off, the graphics charset was
\* made active, and ESC 8 put the flags off again although the active slot
\* still holds '0'.
C29_Witness ==
    /\ Restored
    /\ SavedFlags(_currentScreen) = <<FALSE, FALSE>>
    /\ ActiveDesignator(_currentScreen) = Asc["0"]
    /\ ~CHARSET(St).graphic

---------------------------------------------------------------------------
(* The nesting of receiveChars: code points arrive one per call in either  *)
(* mode, and the emulation is reset.  calls holds the deepest nesting the  *)
(* last call reached, log the tokenizer it found.                          *)

DepthAlphabet ==
    {ESC, ESC + 128, BEL} \cup AscSet({"]", "2", "\\", "m"})

DepthReceive ==
    \E cc \in DepthAlphabet :
        \E r \in {receiveChars(St, <<cc>>)} :
            /\ Commit(r)
            /\ lastCall' = Op("receiveChars", "", cc)
            /\ calls' = <<r.deepest>>
            /\ log' = <<[tokenBuffer |-> tokenBuffer,
                         ansi |-> _currentModes[MODE_Ansi]]>>
            /\ EndRecord
            /\ UNCHANGED <<pendingOrder, updates>>

NextDepth == OrderReset \/ DepthReceive

SpecDepth == Init /\ [][NextDepth]_vars

\* The last call found, in ANSI mode, an OSC string whose last code point
\* kept by addToCurrentToken is ESC.
OscAwaitsTerminator ==
    LET b == log[1].tokenBuffer
        q == Min(Len(b), MAX_TOKEN_LENGTH - 1)
    IN  log[1].ansi /\ q >= 3 /\ b[2] = Asc["]"] /\ b[q] = ESC

\* C24 as stated: a call of receiveChars nests receiveChars at most one
\* level deep, whatever the code point and the tokenizer state.
C24_OneLevel ==
    lastCall.op = "receiveChars" => calls[1] <= 1

\* C24 as the code has it: receiveChars nests at most two levels deep.  It
\* reaches the second level exactly when the code point 0x9B follows the
\* ESC that ends an OSC string: the call that feeds 0x9B again rewrites it
\* to ESC and calls receiveChars for '['.  At the start of a sequence in
\* ANSI mode 0x9B nests one level and leaves ESC [ in the buffer.
C24_TwoLevels ==
    lastCall.op = "receiveChars" =>
        /\ calls[1] <= 2
        /\ calls[1] = 2 <=> (lastCall.n = ESC + 128 /\ OscAwaitsTerminator)
        /\ (lastCall.n = ESC + 128 /\ log[1].ansi
            /\ log[1].tokenBuffer = <<>>) =>
               /\ calls[1] = 1
               /\ tokenBuffer = <<ESC, Asc["["]>>

\* C24 witness: ESC ] 2 ESC was in the buffer when 0x9B arrived; the call
\* nested two levels deep and left ESC [ in the buffer.
C24_Witness ==
    /\ lastCall = Op("receiveChars", "", ESC + 128)
    /\ log[1].tokenBuffer = <<ESC, Asc["]"], Asc["2"], ESC>>
    /\ calls[1] = 2
    /\ tokenBuffer = <<ESC, Asc["["]>>

---------------------------------------------------------------------------
(* SGR parameter lists.  The tokenizer specifications above run with argv  *)
(* scaled down to MAXARGS slots, too few for 38;2;r;g;b with a parameter   *)
(* before and after it.  Here the parameters of CSI ... m are collected    *)
(* in calls, one per step, as addDigit and addArgument leave them in the   *)
(* program's own argv, and the final m runs the loop over them.  log       *)
(* holds the list the last m dispatched.                                   *)

\* Longest parameter list followed.
SgrMaxParams == 7

\* Parameter values: the two colour selectors, the two colour-space
\* selectors, which also stand for attributes and colour components.
SgrValues == {2, 5, 38, 48}

\* The text of a parameter list: decimal numbers separated by ';'.
RECURSIVE SgrText(_)
SgrText(ps) ==
    IF Len(ps) = 1 THEN Dec(ps[1])
    ELSE Dec(ps[1]) \o <<Asc[";"]>> \o SgrText(Tail(ps))

\* The tokenizer when the final m of CSI ps m has been added to the token.
SgrState(s, ps) ==
    [s EXCEPT !.tokenBuffer = <<ESC, Asc["["]>> \o SgrText(ps) \o <<Asc["m"]>>,
              !.argv = [i \in 0..(Len(ps) - 1) |-> ps[i + 1]],
              !.argc = Len(ps) - 1]

\* One more parameter of the sequence has been read.
SgrParam ==
    \E v \in SgrValues :
        /\ Len(calls) < SgrMaxParams
        /\ Commit(St)
        /\ lastCall' = Op("addArgument", "", v)
        /\ calls' = Append(calls, v)
        /\ log' = <<>>
        /\ EndRecord
        /\ UNCHANGED <<pendingOrder, updates>>

\* The final m arrives: the loop dispatches the parameters and the
\* tokenizer is reset.
SgrFinal ==
    /\ calls # <<>>
    /\ \E r \in {csiLoop(SgrState(St, calls), Asc["m"], 0)} :
           Commit(resetTokenizer([r EXCEPT !.argv = argv]))
    /\ lastCall' = Op("receiveChars", "m", Len(calls))
    /\ calls' = <<>>
    /\ log' = <<calls>>
    /\ EndRecord
    /\ UNCHANGED <<pendingOrder, updates>>

NextSgr == SgrParam \/ SgrFinal

SpecSgr == Init /\ [][NextSgr]_vars

\* The last step dispatched the parameter list log[1].
SgrDone == lastCall.op = "receiveChars" /\ lastCall.m = "m"

\* A token CsiPs('m', n) with the arguments p and q.
SgrToken(n, p, q) == [token |-> token_csi_ps(Asc["m"], n), p |-> p, q |-> q]

\* ps holds 38;2;r;g;b or 48;2;r;g;b from position i on.
RgbAt(ps, i) ==
    i + 4 <= Len(ps) /\ ps[i] \in {38, 48} /\ ps[i + 1] = 2

\* ps holds 38;5;n or 48;5;n from position i on.
IndexedAt(ps, i) ==
    i + 2 <= Len(ps) /\ ps[i] \in {38, 48} /\ ps[i + 1] = 5

\* The tokens of a parameter list read from left to right: a colour
\* sub-sequence where one begins, a token for the parameter otherwise.
RECURSIVE SgrTokens(_)
SgrTokens(ps) ==
    IF ps = <<>> THEN <<>>
    ELSE IF RgbAt(ps, 1)
    THEN <<SgrToken(ps[1], COLOR_SPACE_RGB,
                    (ps[3] * 65536) + (ps[4] * 256) + ps[5])>>
         \o SgrTokens(SubSeq(ps, 6, Len(ps)))
    ELSE IF IndexedAt(ps, 1)
    THEN <<SgrToken(ps[1], COLOR_SPACE_256, ps[3])>>
         \o SgrTokens(SubSeq(ps, 4, Len(ps)))
    ELSE <<SgrToken(ps[1], 0, 0)>> \o SgrTokens(Tail(ps))

---------------------------------------------------------------------------
(* Control characters inside ESC and CSI sequences: one call of            *)
(* receiveChars brings the beginning of a sequence, a control character    *)
(* and the rest of the sequence.  log holds the tokenizer before and after *)
(* the control character, and what the same sequence does without it.      *)

\* The beginning and the rest of sequences of both modes.
CtlPieces ==
    {<<<<ESC>>, Codes(<<"D">>)>>,
     <<<<ESC>>, Codes(<<"<">>)>>,
     <<<<ESC, Asc["["]>>, Codes(<<"m">>)>>,
     <<<<ESC, Asc["["], Asc["1"]>>, Codes(<<";", "2", "H">>)>>,
     <<<<ESC, Asc["["], Asc["1"], Asc[";"]>>, Codes(<<"2", "H">>)>>,
     <<<<ESC, Asc["["], Asc["?"], Asc["2"]>>, Codes(<<"l">>)>>,
     <<<<ESC, Asc["("]>>, Codes(<<"0">>)>>,
     <<<<ESC, Asc["#"]>>, Codes(<<"8">>)>>,
     <<<<ESC, Asc["Y"]>>, Codes(<<"P", "Q">>)>>,
     <<<<ESC, Asc["Y"], Asc["P"]>>, Codes(<<"Q">>)>>}

\* A signal, a call on the Screen, and the two shifts.
CtlCodes == {BEL, BS, SO, SI}

\* tokenBufferPos and the buffer, argc and argv.
Tokenizer(s) == [tokenBuffer |-> s.tokenBuffer, argc |-> s.argc, argv |-> s.argv]

CtlReceive ==
    \E piece \in CtlPieces, cc \in CtlCodes :
        \E r \in {[chars \in {piece[1], piece[1] \o <<cc>>,
                               piece[1] \o piece[2],
                               piece[1] \o <<cc>> \o piece[2]} |->
                      receiveChars(St, chars)]} :
            /\ Commit(r[piece[1] \o <<cc>> \o piece[2]])
            /\ lastCall' = Op("receiveChars", "", cc)
            /\ calls' = <<piece>>
            /\ log' = <<[begun |-> Tokenizer(r[piece[1]]),
                         begunTokens |-> r[piece[1]].tokens,
                         struck |-> Tokenizer(r[piece[1] \o <<cc>>]),
                         struckTokens |-> r[piece[1] \o <<cc>>].tokens,
                         plain |-> Tokenizer(r[piece[1] \o piece[2]]),
                         plainTokens |-> r[piece[1] \o piece[2]].tokens]>>
            /\ EndRecord
            /\ UNCHANGED <<pendingOrder, updates>>

NextCtl == OrderReset \/ CtlReceive

SpecCtl == Init /\ [][NextCtl]_vars

\* The control character of the last call arrived while a sequence that is
\* not an OSC was in progress.
StruckInSequence ==
    /\ lastCall.op = "receiveChars"
    /\ log[1].begun.tokenBuffer # <<>>
    /\ log[1].begunTokens = <<>>

\* C26: a control character other than CAN, SUB and ESC that arrives in
\* the middle of an ESC or CSI sequence is dispatched at once as a Ctl
\* token and leaves tokenBuffer, argc and argv as they were; the rest of
\* the sequence then gives the tokens and parameters, and leaves the
\* tokenizer, as it does without the control character.
C26_ControlInsideSequence ==
    StruckInSequence =>
        /\ log[1].struckTokens = CtlToken(lastCall.n)
        /\ log[1].struck = log[1].begun
        /\ tokens = CtlToken(lastCall.n) \o log[1].plainTokens
        /\ Tokenizer(St) = log[1].plain

\* C26 witness: in ANSI mode BS arrived after ESC [ 1 and ; 2 H followed;
\* the tokens are Ctl('H') and CsiPn('H') with the parameters 1 and 2.
C26_Witness ==
    /\ StruckInSequence
    /\ lastCall.n = BS
    /\ calls[1][1] = <<ESC, Asc["["], Asc["1"]>>
    /\ log[1].begun.argv[0] = 1
    /\ tokens = CtlToken(BS)
                \o <<[token |-> token_csi_pn(Asc["H"]), p |-> 1, q |-> 2]>>

---------------------------------------------------------------------------
(* 80 and 132 columns: the two modes are set and reset, by the program     *)
(* (CSI ? 3 and CSI ? 40) and directly, the screens are switched, the view *)
(* resizes the image, and the emulation is reset.  log holds what the last *)
(* operation found.                                                        *)

ColumnsModes == {MODE_132Columns, MODE_Allow132Columns}

ColumnsNumbers == {3, 40, 47}

ColumnsSizes ==
    {[lines |-> 24, columns |-> 80], [lines |-> 24, columns |-> 100],
     [lines |-> 40, columns |-> 132]}

ColumnsBefore ==
    [allow |-> _currentModes[MODE_Allow132Columns],
     ansi |-> _currentModes[MODE_Ansi],
     imageSize |-> imageSize]

ColumnsModeOp ==
    \E m \in ColumnsModes, on \in BOOLEAN :
        /\ Commit(IF on THEN setMode(St, m) ELSE resetMode(St, m))
        /\ lastCall' = Op(IF on THEN "setMode" ELSE "resetMode", m, 0)
        /\ log' = <<ColumnsBefore>>
        /\ EndRecord
        /\ UNCHANGED <<calls, pendingOrder, updates>>

ColumnsSequence ==
    \E n \in ColumnsNumbers, f \in {"h", "l"} :
        /\ Commit(receiveChars(St, ModeChunk(n, f)))
        /\ lastCall' = Op("receiveChars", f, n)
        /\ log' = <<ColumnsBefore>>
        /\ EndRecord
        /\ UNCHANGED <<calls, pendingOrder, updates>>

\* The view has a new size.
ColumnsResize ==
    \E size \in ColumnsSizes :
        /\ Commit(setImageSize(St, size.lines, size.columns))
        /\ lastCall' = Op("setImageSize", "", size.columns)
        /\ log' = <<ColumnsBefore>>
        /\ EndRecord
        /\ UNCHANGED <<calls, pendingOrder, updates>>

NextColumns ==
    OrderReset \/ ColumnsModeOp \/ ColumnsSequence \/ ColumnsResize

SpecColumns == Init /\ [][NextColumns]_vars

\* The last operation was setMode(MODE_132Columns), called directly or for
\* CSI ? 3 h in ANSI mode; likewise resetMode and CSI ? 3 l.
ColumnsSet ==
    \/ lastCall = Op("setMode", MODE_132Columns, 0)
    \/ lastCall = Op("receiveChars", "h", 3) /\ log[1].ansi

ColumnsReset ==
    \/ lastCall = Op("resetMode", MODE_132Columns, 0)
    \/ lastCall = Op("receiveChars", "l", 3) /\ log[1].ansi

\* The names of the calls of the last operation, in order.
EmittedOps == [i \in 1..Len(emitted) |-> emitted[i].op]

\* With Allow132Columns off the mode is false afterwards and the screen is
\* neither cleared nor resized.
ColumnsRefused ==
    /\ ~_currentModes[MODE_132Columns]
    /\ emitted = <<>>
    /\ imageSize = log[1].imageSize

\* The image has n columns and the lines it had.
ColumnsAre(n) ==
    imageSize = [lines |-> log[1].imageSize.lines, columns |-> n]

\* C27 as stated: with Allow132Columns off, setMode and resetMode of
\* 132Columns leave the mode false and neither clear nor resize; with it
\* on, setMode makes the mode true and resizes to 132 columns, resetMode
\* makes it false and resizes to 80 columns, each after clearing the
\* screen.
C27_ResizeAfterClearing ==
    (ColumnsSet \/ ColumnsReset) =>
        IF ~log[1].allow THEN ColumnsRefused
        ELSE /\ _currentModes[MODE_132Columns] = ColumnsSet
             /\ ColumnsAre(IF ColumnsSet THEN 132 ELSE 80)
             /\ \E i, j \in 1..Len(emitted) :
                    /\ i < j
                    /\ emitted[i].op = "clearEntireScreen"
                    /\ emitted[j].op = "setImageSize"

\* C27 as the code has it: with Allow132Columns off nothing is cleared or
\* resized and the mode is false afterwards; with it on the mode is set
\* or reset, then the image is resized to 132 or 80 columns with its
\* lines kept, then the current screen is cleared, then the margins of
\* both screens are reset and the cursor goes to the origin.
C27_ResizeThenClear ==
    (ColumnsSet \/ ColumnsReset) =>
        IF ~log[1].allow THEN ColumnsRefused
        ELSE /\ _currentModes[MODE_132Columns] = ColumnsSet
             /\ ColumnsAre(IF ColumnsSet THEN 132 ELSE 80)
             /\ EmittedOps = <<"setImageSize", "clearEntireScreen",
                               "setDefaultMargins", "setDefaultMargins",
                               "setCursorYX">>
             /\ emitted[1].args = <<log[1].imageSize.lines,
                                    IF ColumnsSet THEN 132 ELSE 80>>
             /\ emitted[2].scr = _currentScreen

\* C27 witness: CSI ? 3 h arrived with Allow132Columns on, 100 columns and
\* the alternate screen current; the image has 132 columns and the
\* alternate screen was cleared.
C27_Witness ==
    /\ lastCall = Op("receiveChars", "h", 3)
    /\ log[1].allow
    /\ log[1].imageSize = [lines |-> 24, columns |-> 100]
    /\ _currentScreen = 1
    /\ _currentModes[MODE_132Columns]
    /\ imageSize.columns = 132
    /\ emitted[2].op = "clearEntireScreen"
    /\ emitted[2].scr = 1

\* With Allow132Columns off, CSI ? 3 h left the mode false and did nothing.
C27_RefusedReached ==
    /\ lastCall = Op("receiveChars", "h", 3)
    /\ log[1].ansi
    /\ ~log[1].allow
    /\ ColumnsRefused

---------------------------------------------------------------------------
(* Mouse tracking by the program: CSI ? 1000 .. 1003 with the finals h, l, *)
(* s and r arrive in either mode, the program switches between VT52 and    *)
(* ANSI mode, and the emulation is reset.  log holds the modes the last    *)
(* call found.                                                             *)

TrackNumbers == {1000, 1001, 1002, 1003}

TrackChunks ==
    {[f |-> f, n |-> n, chunk |-> ModeChunk(n, f)] :
        n \in TrackNumbers, f \in {"h", "l", "s", "r"}}
    \cup {[f |-> "vt52", n |-> 2, chunk |-> ModeChunk(2, "l")],
          [f |-> "ansi", n |-> 0, chunk |-> <<ESC, Asc["<"]>>]}

TrackReceive ==
    \E in \in TrackChunks :
        /\ Commit(receiveChars(St, in.chunk))
        /\ lastCall' = Op("receiveChars", in.f, in.n)
        /\ log' = <<[current |-> _currentModes, saved |-> _savedModes]>>
        /\ EndRecord
        /\ UNCHANGED <<calls, pendingOrder, updates>>

NextTrack == OrderReset \/ TrackReceive

SpecTrack == Init /\ [][NextTrack]_vars

\* The last call brought CSI ? n f in ANSI mode.
TrackSequence(n, f) ==
    lastCall = Op("receiveChars", f, n) /\ log[1].current[MODE_Ansi]

\* C28: MODE_Mouse1001 is false in every state that input reaches.
\* CSI ? 1001 h changes no current or saved mode and makes no call or
\* signal.  CSI ? 1001 l, like CSI ? 1000 l, CSI ? 1002 l and CSI ? 1003 l,
\* leaves the four mouse-tracking modes false and every other mode as it
\* was, and emits programRequestsMouseTracking(false) and nothing else.
C28_HiliteTracking ==
    /\ ~_currentModes[MODE_Mouse1001]
    /\ TrackSequence(1001, "h") =>
           /\ _currentModes = log[1].current
           /\ _savedModes = log[1].saved
           /\ emitted = <<>>
    /\ \A n \in TrackNumbers :
           TrackSequence(n, "l") =>
               /\ _currentModes =
                      [m \in Modes |->
                          IF m \in MouseTrackingModes THEN FALSE
                          ELSE log[1].current[m]]
               /\ _savedModes = log[1].saved
               /\ Len(emitted) = 1
               /\ emitted[1].tgt = "signal"
               /\ emitted[1].op = "programRequestsMouseTracking"
               /\ emitted[1].args = <<Bool(FALSE)>>

\* C28 witness: CSI ? 1001 l arrived while Mouse1002 was on; no tracking
\* mode is on and programRequestsMouseTracking(false) was emitted.
C28_Witness ==
    /\ TrackSequence(1001, "l")
    /\ log[1].current[MODE_Mouse1002]
    /\ \A m \in MouseTrackingModes : ~_currentModes[m]
    /\ emitted[1].op = "programRequestsMouseTracking"

\* CSI ? 1001 h arrived while Mouse1000 was on and left it on.
C28_IgnoredReached ==
    /\ TrackSequence(1001, "h")
    /\ log[1].current[MODE_Mouse1000]
    /\ _currentModes[MODE_Mouse1000]
    /\ emitted = <<>>

---------------------------------------------------------------------------
(* Errors: one call of receiveChars brings an unrecognized escape          *)
(* sequence or a malformed OSC and then further input.  log holds what the *)
(* first part found and left, and the tokens of the further input when it  *)
(* arrives without the first part.                                         *)

\* ESC z and CSI 1;2;9 v reach the default branch of processToken; the
\* OSCs have no ';'.
ErrSequences ==
    {<<ESC, Asc["z"]>>,
     <<ESC>> \o Codes(<<"[", "1", ";", "2", ";", "9", "v">>),
     <<ESC, Asc["]"], Asc["2"], BEL>>,
     <<ESC, Asc["]"], Asc["2"], ESC, Asc["\\"]>>,
     <<ESC, Asc["]"], Asc["8"], ESC, Asc["\\"]>>}

\* A character, SGR 0, a resize with its last parameter left out, an OSC
\* that sets attribute 2, and the switch to VT52 mode.
ErrFollowing ==
    {<<Asc["A"]>>,
     <<ESC, Asc["["], Asc["m"]>>,
     <<ESC>> \o Codes(<<"[", "8", ";", "2", "t">>),
     <<ESC, Asc["]"], Asc["2"], Asc[";"], BEL>>,
     ModeChunk(2, "l")}

\* What an operation can leave behind outside the tokenizer.
Effects(s) ==
    [current |-> s._currentModes, saved |-> s._savedModes,
     pending |-> s._pendingSessionAttributesUpdates,
     timer |-> s.timerActive, emitted |-> s.emitted]

ErrReceive ==
    \E bad \in ErrSequences, next \in ErrFollowing :
        \E r \in {[chars \in {bad, next, bad \o next} |->
                      receiveChars(St, chars)]} :
            /\ Commit(r[bad \o next])
            /\ lastCall' = Op("receiveChars", "", Len(bad))
            /\ calls' = <<bad, next>>
            /\ log' = <<[before |-> Effects(St),
                         bad |-> Effects(r[bad]),
                         badTokenizer |-> Tokenizer(r[bad]),
                         badTokens |-> r[bad].tokens,
                         plainTokens |-> r[next].tokens]>>
            /\ EndRecord
            /\ UNCHANGED <<pendingOrder, updates>>

NextErr == OrderReset \/ ErrReceive

SpecErr == Init /\ [][NextErr]_vars

\* The last call brought its sequences in ANSI mode.
ErrDone == lastCall.op = "receiveChars" /\ log[1].before.current[MODE_Ansi]

\* The calls the unrecognized or malformed sequence made on a Screen or on
\* the URL extractor of a Screen, and the sendData it emitted.
ErrCalls ==
    {i \in 1..Len(log[1].bad.emitted) :
        \/ log[1].bad.emitted[i].tgt \in {"screen", "url"}
        \/ log[1].bad.emitted[i].op = "sendData"}

\* The sequence changed no current or saved mode and no pending attribute
\* update, and started no timer.
ErrNoChange ==
    /\ log[1].bad.current = log[1].before.current
    /\ log[1].bad.saved = log[1].before.saved
    /\ log[1].bad.pending = log[1].before.pending
    /\ log[1].bad.timer = log[1].before.timer

\* The sequence left the tokenizer reset, and the input after it gave the
\* tokens it gives when it arrives alone.
ErrThenAsFresh ==
    /\ log[1].badTokenizer.tokenBuffer = <<>>
    /\ log[1].badTokenizer.argc = 0
    /\ log[1].badTokenizer.argv[0] = 0
    /\ log[1].badTokenizer.argv[1] = 0
    /\ tokens = log[1].badTokens \o log[1].plainTokens

\* C30 as stated: an unrecognized escape sequence or a malformed OSC makes
\* no call on a Screen, changes no mode, sends no data and changes no
\* pending attribute update; it leaves the tokenizer reset, and the input
\* that follows gives the tokens it gives to a fresh tokenizer.
C30_ErrorsLeaveNoTrace ==
    ErrDone => ErrCalls = {} /\ ErrNoChange /\ ErrThenAsFresh

\* C30 witness: CSI 1;2;9 v reached the default branch and left 9 in
\* argv[2]; the CSI 8;2 t after it was dispatched with q = 9, not the 0 it
\* has when it arrives alone, and the image was resized to 9 columns.
C30_Witness ==
    /\ ErrDone
    /\ calls[1] = <<ESC>> \o Codes(<<"[", "1", ";", "2", ";", "9", "v">>)
    /\ calls[2] = <<ESC>> \o Codes(<<"[", "8", ";", "2", "t">>)
    /\ log[1].plainTokens =
           <<[token |-> token_csi_ps(Asc["t"], 8), p |-> 2, q |-> 0]>>
    /\ tokens[Len(tokens)] =
           [token |-> token_csi_ps(Asc["t"], 8), p |-> 2, q |-> 9]
    /\ imageSize.columns = 9

\* The malformed OSC 8 ended by ESC \ toggled the URL input of the current
\* screen before it was rejected.
C30_UrlToggledReached ==
    /\ ErrDone
    /\ calls[1] = <<ESC, Asc["]"], Asc["8"], ESC, Asc["\\"]>>
    /\ Cardinality(ErrCalls) = 1
    /\ \A i \in ErrCalls : log[1].bad.emitted[i].op = "toggleUrlInput"

\* What holds of C30: the sequence changes no mode and no pending update,
\* sends no data and leaves the tokenizer reset; it makes no call on a
\* Screen, except that ESC ] 8 ESC \ toggles the URL input of the current
\* screen; the input after it gives the tokens it gives alone, except
\* that CSI 8;2 t takes its missing parameter from what is left in
\* argv[2].
C30_ErrorsButUrlAndArgv ==
    ErrDone =>
        /\ ErrNoChange
        /\ \/ ErrCalls = {}
           \/ /\ calls[1] = <<ESC, Asc["]"], Asc["8"], ESC, Asc["\\"]>>
              /\ \A i \in ErrCalls :
                     log[1].bad.emitted[i].op = "toggleUrlInput"
        /\ log[1].badTokenizer.tokenBuffer = <<>>
        /\ log[1].badTokenizer.argc = 0
        /\ log[1].badTokenizer.argv[0] = 0
        /\ log[1].badTokenizer.argv[1] = 0
        /\ Len(tokens) = Len(log[1].badTokens \o log[1].plainTokens)
        /\ \A k \in 1..Len(tokens) :
               LET alone == (log[1].badTokens \o log[1].plainTokens)[k]
               IN  /\ tokens[k].token = alone.token
                   /\ tokens[k].p = alone.p
                   /\ \/ tokens[k].q = alone.q
                      \/ tokens[k].token = token_csi_ps(Asc["t"], 8)

---------------------------------------------------------------------------
(* DECRQCRA, the build with ENABLE_DECRQCRA.  The request reads the        *)
(* program's own argv up to argv[5], more slots than the scaled argv has,  *)
(* so the request is applied to a parameter list av with its own argc n.   *)
(* The size, the Origin mode and the top margin are what the current       *)
(* screen answers; the image holds spaces without rendition.               *)

\* qBound(min, val, max) of QtGlobal: qMax(min, qMin(max, val)).
qBound(min, val, max) ==
    IF Min(max, val) < min THEN min ELSE Min(max, val)

\* The rectangle of processChecksumRequest when the loop starts, or
\* read = FALSE when the function returns before it.
checksumRegion(n, av, screen) ==
    LET count == IF av[1] = 0 THEN 1 ELSE n
        top == IF count >= 2 THEN av[2] ELSE 1
        left == IF count >= 3 THEN av[3] ELSE 1
        bottom == IF count >= 4 THEN av[4] ELSE screen.lines
        right == IF count >= 5 THEN av[5] ELSE screen.columns
        shift == IF screen.origin THEN screen.topMargin ELSE 0
    IN  IF top > bottom \/ left > right
        THEN [read |-> FALSE, top |-> top, left |-> left,
              bottom |-> bottom, right |-> right]
        ELSE [read |-> TRUE,
              top |-> qBound(1, top + shift, screen.lines),
              left |-> left,
              bottom |-> qBound(1, bottom + shift, screen.lines),
              right |-> right]

\* The cells the two for loops read: image[y * columns + x].
checksumCells(region) ==
    IF region.read
    THEN {[y |-> y, x |-> x] : y \in (region.top - 1)..(region.bottom - 1),
                               x \in (region.left - 1)..(region.right - 1)}
    ELSE {}

\* The cells whose index lies outside the image that malloc returned.
outsideImage(cells, screen) ==
    {c \in cells : ~(c.y * screen.columns + c.x
                         \in 0..(screen.lines * screen.columns - 1))}

\* "%04X": four hexadecimal digits, upper case.
Hex4(n) ==
    LET digit(d) == IF d < 10 THEN Asc["0"] + d ELSE Asc["A"] + (d - 10)
    IN  <<digit((n \div 4096) % 16), digit((n \div 256) % 16),
          digit((n \div 16) % 16), digit(n % 16)>>

\* checksum = -checksum; checksum &= 0xffff.
checksumValue(sum) == (65536 - (sum % 65536)) % 65536

\* processChecksumRequest with ENABLE_DECRQCRA.  A cell inside the image
\* adds 0x20; a read outside the image adds whatever is there.
processChecksumRequestCells(s, n, av, screen, g) ==
    LET region == checksumRegion(n, av, screen)
        cells == checksumCells(region)
        outside == outsideImage(cells, screen)
        sum == 32 * Cardinality(cells \ outside)
                   + UninitCodePoint(g) * Cardinality(outside)
    IN  IF ~region.read THEN s
        ELSE sendString(s, <<ESC, Asc["P"]>> \o Dec(av[0])
                           \o Codes(<<"!", "~">>) \o Hex4(checksumValue(sum))
                           \o <<ESC, Asc["\\"]>>)

\* Sizes of the image small enough for the rectangle to leave them.
ChecksumSizes ==
    {[lines |-> 2, columns |-> 3], [lines |-> 3, columns |-> 2]}

\* Pid 1, the page, and the four sides: zero, a value inside every size
\* and a value outside every size.
ChecksumLists ==
    {[i \in 0..5 |-> <<1, page, top, left, bottom, right>>[i + 1]] :
        page \in {0, 1}, top \in {0, 2}, left \in {0, 2, 4},
        bottom \in {2, 4}, right \in {2, 4}}

\* What the screen answers for getMode(MODE_Origin) and topMargin().
ChecksumMargins ==
    {[origin |-> FALSE, topMargin |-> 0], [origin |-> TRUE, topMargin |-> 0],
     [origin |-> TRUE, topMargin |-> 1]}

\* The view has a new size.
ChecksumResize ==
    \E size \in ChecksumSizes :
        /\ Commit(setImageSize(St, size.lines, size.columns))
        /\ lastCall' = Op("setImageSize", "", size.columns)
        /\ EndRecord
        /\ NoHistory

\* CSI Pid ; Pp ; Pt ; Pl ; Pb ; Pr * y has been collected on a screen of
\* one of the small sizes: the request runs and the tokenizer is reset.
\* log holds the screen and the rectangle of the loop.
ChecksumRequest ==
    \E n \in 0..5, av \in ChecksumLists, margin \in ChecksumMargins :
        /\ [lines |-> imageSize.lines, columns |-> imageSize.columns]
               \in ChecksumSizes
        /\ \E screen \in {[lines |-> imageSize.lines,
                        columns |-> imageSize.columns,
                        origin |-> margin.origin,
                        topMargin |-> margin.topMargin]} :
            \E region \in {checksumRegion(n, av, screen)} :
                \E g \in IF outsideImage(checksumCells(region), screen) = {}
                             THEN {"zero"} ELSE Uninit :
                    /\ Commit(resetTokenizer(
                           processChecksumRequestCells(St, n, av, screen, g)))
                    /\ lastCall' = Op("processChecksumRequest", "y", n)
                    /\ calls' = <<>>
                    /\ log' = <<[screen |-> screen, region |-> region]>>
                    /\ EndRecord
                    /\ UNCHANGED <<pendingOrder, updates>>

NextChecksum == OrderReset \/ ChecksumResize \/ ChecksumRequest

SpecChecksum == Init /\ [][NextChecksum]_vars

\* The last operation was a checksum request that read cells.
ChecksumRead ==
    lastCall.op = "processChecksumRequest" /\ log[1].region.read

\* C31: every cell (y, x) that processChecksumRequest reads lies on the
\* screen, 0 <= y < lines and 0 <= x < columns.
C31_CellsOnScreen ==
    ChecksumRead =>
        \A c \in checksumCells(log[1].region) :
            /\ c.y \in 0..(log[1].screen.lines - 1)
            /\ c.x \in 0..(log[1].screen.columns - 1)

\* C31 (rows): every cell read has a row of the screen, and the rectangle
\* has its top and bottom in 1..lines after the origin shift.
C31_RowsOnScreen ==
    ChecksumRead =>
        /\ log[1].region.top \in 1..log[1].screen.lines
        /\ log[1].region.bottom \in 1..log[1].screen.lines
        /\ \A c \in checksumCells(log[1].region) :
               c.y \in 0..(log[1].screen.lines - 1)

\* C31 witness: on a screen of 2 lines and 3 columns the request with
\* left 0 and right 4 has read the cells of column -1 and of column 3,
\* among them indexes before and after the image.
C31_Witness ==
    /\ ChecksumRead
    /\ log[1].screen.lines = 2 /\ log[1].screen.columns = 3
    /\ log[1].region.left = 0 /\ log[1].region.right = 4
    /\ [y |-> 0, x |-> -1] \in checksumCells(log[1].region)
    /\ [y |-> 1, x |-> 3] \in checksumCells(log[1].region)
    /\ outsideImage(checksumCells(log[1].region), log[1].screen) # {}
    /\ Count("sendData") = 1

\* C31: the rows are clipped also in Origin mode, where the top margin is
\* added first: top 2 and bottom 4 on a screen of 2 lines.
C31_OriginReached ==
    /\ ChecksumRead
    /\ log[1].screen.origin /\ log[1].screen.topMargin = 1
    /\ log[1].screen.lines = 2 /\ lastCall.n = 5
    /\ log[1].region.top = 2 /\ log[1].region.bottom = 2

---------------------------------------------------------------------------
(* Parameters and history: one call of receiveChars brings a CSI sequence  *)
(* after each of several earlier inputs.  log holds, for every earlier     *)
(* input, the last token that the sequence gave after it.                  *)

\* Nothing, a character, SGR 1;2;9 and a resize to 7 lines and 9 columns.
HistPrefixes ==
    {<<>>,
     <<Asc["A"]>>,
     <<ESC>> \o Codes(<<"[", "1", ";", "2", ";", "9", "m">>),
     <<ESC>> \o Codes(<<"[", "8", ";", "7", ";", "9", "t">>)}

\* CSI 8 t and CSI 8 ; 2 t with parameters left out, cursor up by 5,
\* cursor home, SGR 4.
HistSequences ==
    {<<ESC>> \o Codes(<<"[", "8", "t">>),
     <<ESC>> \o Codes(<<"[", "8", ";", "2", "t">>),
     <<ESC>> \o Codes(<<"[", "5", "A">>),
     <<ESC>> \o Codes(<<"[", "H">>),
     <<ESC>> \o Codes(<<"[", "4", "m">>)}

\* The token dispatched last in s, with its parameters.
LastToken(s) == s.tokens[Len(s.tokens)]

HistReceive ==
    \E hist \in HistPrefixes, seq \in HistSequences :
        \E r \in {[h \in HistPrefixes |-> receiveChars(St, h \o seq)]} :
            /\ Commit(r[hist])
            /\ lastCall' = Op("receiveChars", "", Len(hist))
            /\ calls' = <<seq>>
            /\ log' = <<[ansi |-> getMode(St, MODE_Ansi),
                         last |-> [h \in HistPrefixes |-> LastToken(r[h])]]>>
            /\ EndRecord
            /\ UNCHANGED <<pendingOrder, updates>>

NextHist == OrderReset \/ HistReceive

SpecHist == Init /\ [][NextHist]_vars

\* The last call brought its input in ANSI mode.
HistDone == lastCall.op = "receiveChars" /\ log[1].ansi

\* The sequence of the last call is CSI followed by text.
HistSequence(text) == calls = <<<<ESC, Asc["["]>> \o Codes(text)>>

\* C32 as stated: the last token of a CSI sequence and its two parameters
\* are the same after every earlier input, and the parameters left out of
\* CSI 8 t are 0.
C32_ParametersFromSequenceOnly ==
    HistDone =>
        /\ \A h1, h2 \in HistPrefixes : log[1].last[h1] = log[1].last[h2]
        /\ HistSequence(<<"8", "t">>) =>
               \A h \in HistPrefixes :
                   log[1].last[h].p = 0 /\ log[1].last[h].q = 0

\* C32, the part that holds: the token and its first parameter are the
\* same after every earlier input, and so is the second parameter of every
\* token other than CsiPs('t', .); the first parameter left out of CSI 8 t
\* is 0.
C32_AllButResizeColumns ==
    HistDone =>
        /\ \A h1, h2 \in HistPrefixes :
               /\ log[1].last[h1].token = log[1].last[h2].token
               /\ log[1].last[h1].p = log[1].last[h2].p
               /\ ~(HistSequence(<<"8", "t">>)
                        \/ HistSequence(<<"8", ";", "2", "t">>))
                      => log[1].last[h1].q = log[1].last[h2].q
        /\ HistSequence(<<"8", "t">>) =>
               \A h \in HistPrefixes : log[1].last[h].p = 0

\* C32 witness: CSI 8 t after SGR 1;2;9 was dispatched as CsiPs('t', 8)
\* with the parameters (0, 9), and after the character A with the second
\* parameter that an earlier call had left.
C32_Witness ==
    /\ HistDone
    /\ HistSequence(<<"8", "t">>)
    /\ lastCall.n = 8
    /\ tokens[Len(tokens)] =
           [token |-> token_csi_ps(Asc["t"], 8), p |-> 0, q |-> 9]
    /\ log[1].last[<<Asc["A"]>>].q # 9

---------------------------------------------------------------------------
(* Finals above U+00FF: a sequence ends with a code point c >= 256, or     *)
(* with the 8-bit character c mod 256.  The modes that reset() changes are *)
(* set and reset in between.  log holds the tokens of both forms of the    *)
(* sequence from the state the call found.                                 *)

\* ESC c and ESC 7, SGR 1, cursor up by 5 and erase in display, each with
\* the form whose final is 256 higher.
WidePairs ==
    {[narrow |-> <<ESC, Asc[f]>>, wide |-> <<ESC, Asc[f] + 256>>] :
        f \in {"c", "7"}}
    \cup
    {[narrow |-> <<ESC, Asc["["], Asc[d], Asc[f]>>,
      wide |-> <<ESC, Asc["["], Asc[d], Asc[f] + 256>>] :
        d \in {"1", "5"}, f \in {"m", "A", "J"}}

WideModes == {MODE_AppCuKeys, MODE_Mouse1000}

WideModeOp ==
    \E m \in WideModes, on \in BOOLEAN :
        /\ Commit(IF on THEN setMode(St, m) ELSE resetMode(St, m))
        /\ lastCall' = Op(IF on THEN "setMode" ELSE "resetMode", m, 0)
        /\ EndRecord
        /\ NoHistory

WideReceive ==
    \E pair \in WidePairs, form \in {"narrow", "wide"} :
        \E r \in {[chars \in {pair.narrow, pair.wide} |->
                      receiveChars(St, chars)]} :
            /\ Commit(r[pair[form]])
            /\ lastCall' = Op("receiveChars", form, Len(pair[form]))
            /\ calls' = <<pair[form]>>
            /\ log' = <<[ansi |-> getMode(St, MODE_Ansi),
                         cuKeys |-> getMode(St, MODE_AppCuKeys),
                         narrow |-> r[pair.narrow].tokens,
                         wide |-> r[pair.wide].tokens]>>
            /\ EndRecord
            /\ UNCHANGED <<pendingOrder, updates>>

NextWide == OrderReset \/ WideModeOp \/ WideReceive

SpecWide == Init /\ [][NextWide]_vars

\* The last call brought the form of a sequence that ends with a code
\* point >= 256, in ANSI mode.
WideDone ==
    lastCall.op = "receiveChars" /\ lastCall.m = "wide" /\ log[1].ansi

\* The tokens in ts, without their parameters.
TokenSet(ts) == {ts[i].token : i \in 1..Len(ts)}

\* C33 as stated: a sequence that ends with a code point c >= 256
\* dispatches none of the tokens that the sequence ending with c mod 256
\* dispatches.
C33_WideFinalNotTruncated ==
    WideDone => TokenSet(tokens) \cap TokenSet(log[1].narrow) = {}

\* C33, the part that holds: after CSI Pn the final A plus 256 gives a
\* token other than that of the final A, and no call on a Screen.
C33_WidePnFinalNotTruncated ==
    WideDone /\ Len(calls[1]) = 4 /\ calls[1][4] = Asc["A"] + 256
        => /\ TokenSet(tokens) \cap TokenSet(log[1].narrow) = {}
           /\ \A i \in 1..Len(emitted) : emitted[i].tgt # "screen"

\* C33 witness: ESC followed by U+0163 arrived while MODE_AppCuKeys was
\* set, was dispatched as the token of ESC c, and reset the emulation.
C33_Witness ==
    /\ WideDone
    /\ calls = <<<<ESC, 355>>>>
    /\ tokens = <<[token |-> token_esc(Asc["c"]), p |-> 0, q |-> 0]>>
    /\ Count("resetCursorStyleRequest") = 1
    /\ log[1].cuKeys
    /\ ~_currentModes[MODE_AppCuKeys]

\* C33: CSI 1 followed by U+016D was dispatched as CsiPs('m', 1) and set
\* bold on the current screen.
C33_BoldReached ==
    /\ WideDone
    /\ calls = <<<<ESC, Asc["["], Asc["1"], 365>>>>
    /\ tokens = <<[token |-> token_csi_ps(Asc["m"], 1), p |-> 0, q |-> 0]>>
    /\ \E i \in 1..Len(emitted) :
           emitted[i].op = "setRendition" /\ emitted[i].m = "RE_BOLD"

---------------------------------------------------------------------------
(* The modes restoreMode leaves alone: mouse and key modes are set, reset, *)
(* saved and restored.  log holds the current and the saved modes that the *)
(* last operation found.                                                   *)

FrameModes ==
    {MODE_Mouse1000, MODE_Mouse1002, MODE_Mouse1005, MODE_Mouse1006,
     MODE_AppCuKeys}

FrameSavedModes == {MODE_Mouse1000, MODE_Mouse1005, MODE_AppCuKeys}

FrameOps == {"setMode", "resetMode", "saveMode", "restoreMode"}

FrameOp ==
    \E op \in FrameOps :
        \E m \in IF op \in {"saveMode", "restoreMode"}
                     THEN FrameSavedModes ELSE FrameModes :
            /\ Commit(CASE op = "setMode" -> setMode(St, m)
                        [] op = "resetMode" -> resetMode(St, m)
                        [] op = "saveMode" -> saveMode(St, m)
                        [] op = "restoreMode" -> restoreMode(St, m))
            /\ lastCall' = Op(op, m, 0)
            /\ log' = <<[current |-> _currentModes, saved |-> _savedModes]>>
            /\ EndRecord
            /\ UNCHANGED <<calls, pendingOrder, updates>>

NextFrame == OrderReset \/ FrameOp

SpecFrame == Init /\ [][NextFrame]_vars

\* The last operation was restoreMode(lastCall.m).
FrameRestored == lastCall.op = "restoreMode"

\* C34 as stated: restoreMode(m) changes no current mode other than m.
C34_RestoreChangesOnlyM ==
    FrameRestored =>
        \A m \in Modes \ {lastCall.m} :
            _currentModes[m] = log[1].current[m]

\* C34, amended: restoreMode(m) leaves every current mode other than m as
\* it was, except that restoring a mouse-tracking mode clears the other
\* mouse-tracking modes, whatever the saved value, and restoring a
\* mouse-encoding mode whose saved value is true clears the other
\* mouse-encoding modes.
C34_RestoreChangesOnlyGroup ==
    FrameRestored =>
        \A m \in Modes \ {lastCall.m} :
            _currentModes[m] =
                IF \/ {m, lastCall.m} \subseteq MouseTrackingModes
                   \/ /\ {m, lastCall.m} \subseteq MouseEncodingModes
                      /\ log[1].saved[lastCall.m]
                THEN FALSE
                ELSE log[1].current[m]

\* C34 witness: restoreMode(MODE_Mouse1000) found the saved value false
\* and MODE_Mouse1002 set, and cleared MODE_Mouse1002.
C34_Witness ==
    /\ lastCall = Op("restoreMode", MODE_Mouse1000, 0)
    /\ ~log[1].saved[MODE_Mouse1000]
    /\ log[1].current[MODE_Mouse1002]
    /\ ~_currentModes[MODE_Mouse1002]
    /\ ~_currentModes[MODE_Mouse1000]
    /\ Count("programRequestsMouseTracking") = 1

\* C34: restoreMode(MODE_Mouse1005) found the saved value false and
\* MODE_Mouse1006 set, and left MODE_Mouse1006 set.
C34_EncodingKeptReached ==
    /\ lastCall = Op("restoreMode", MODE_Mouse1005, 0)
    /\ ~log[1].saved[MODE_Mouse1005]
    /\ log[1].current[MODE_Mouse1006]
    /\ _currentModes[MODE_Mouse1006]

---------------------------------------------------------------------------
(* Designations on two screens: ESC ( 0, ESC ) A and ESC * B arrive next   *)
(* to shifts, screen switches and resets.  log holds the charset copies    *)
(* and the mode that the last call found.                                  *)

DesInputs ==
    {CharsetInput("designate", 0, <<ESC, Asc["("], Asc["0"]>>),
     CharsetInput("designate", 1, <<ESC, Asc[")"], Asc["A"]>>),
     CharsetInput("designate", 2, <<ESC, Asc["*"], Asc["B"]>>),
     CharsetInput("shift", 1, <<SO>>),
     CharsetInput("shift", 0, <<SI>>),
     CharsetInput("screen", 1, ModeChunk(47, "h")),
     CharsetInput("screen", 0, ModeChunk(47, "l"))}

DesReceive ==
    \E in \in DesInputs :
        /\ Commit(receiveChars(St, in.chunk))
        /\ lastCall' = Op("receiveChars", in.m, in.n)
        /\ calls' = <<in.chunk>>
        /\ log' = <<[charset |-> _charset, ansi |-> _currentModes[MODE_Ansi],
                     screen |-> _currentScreen]>>
        /\ EndRecord
        /\ UNCHANGED <<pendingOrder, updates>>

NextDes == OrderReset \/ DesReceive

SpecDes == Init /\ [][NextDes]_vars

\* The last call brought ESC ( / ) / * followed by a charset in ANSI mode:
\* setCharset(lastCall.n, calls[1][3]).
Designated ==
    lastCall.op = "receiveChars" /\ lastCall.m = "designate" /\ log[1].ansi

\* C35 as stated: setCharset(n, cs) sets slot n to cs in both charset
\* copies and leaves the active slot index of both copies unchanged.
C35_BothSlotsNoActiveChange ==
    Designated =>
        \A k \in 0..1 :
            /\ _charset[k].charset[lastCall.n] = calls[1][3]
            /\ _charset[k].cu_cs = log[1].charset[k].cu_cs

\* C35, the part that holds: slot n is cs in both copies, the other slots
\* are unchanged, and the copy of the screen that is not current keeps
\* its active slot index and its flags; the copy of the current screen
\* has the active slot index that the other copy had.
C35_BothSlotsOtherActive ==
    Designated =>
        /\ \A k \in 0..1 :
               /\ _charset[k].charset[lastCall.n] = calls[1][3]
               /\ \A i \in 0..3 \ {lastCall.n} :
                      _charset[k].charset[i] = log[1].charset[k].charset[i]
        /\ _currentScreen = log[1].screen
        /\ _charset[1 - _currentScreen].cu_cs
               = log[1].charset[1 - _currentScreen].cu_cs
        /\ _charset[1 - _currentScreen].graphic
               = log[1].charset[1 - _currentScreen].graphic
        /\ _charset[_currentScreen].cu_cs
               = log[1].charset[1 - _currentScreen].cu_cs

\* C35 witness: ESC ( 0 arrived on the alternate screen, whose active slot
\* was 0 while that of the primary screen was 1; slot 0 is '0' in both
\* copies and the active slot of the alternate screen is now 1.
C35_Witness ==
    /\ Designated
    /\ lastCall.n = 0 /\ calls[1][3] = Asc["0"]
    /\ _currentScreen = 1
    /\ log[1].charset[0].cu_cs = 1 /\ log[1].charset[1].cu_cs = 0
    /\ _charset[0].charset[0] = Asc["0"] /\ _charset[1].charset[0] = Asc["0"]
    /\ _charset[1].cu_cs = 1

---------------------------------------------------------------------------
(* VT52 mode: single code points arrive next to VT52 sequences and to the  *)
(* changes between ANSI and VT52 mode; every call leaves the tokenizer     *)
(* with no sequence in progress.  log holds the mode and s[1] that the     *)
(* last call found.                                                        *)

\* Space, A, the last 8-bit character, U+0100 and the euro sign.
Vt52CodePoints == {32, 65, 255, 256, 8364}

\* Cursor up, cursor home, a direct cursor address, the switch to ANSI
\* mode and, for ANSI mode, the switch to VT52 mode.
Vt52Sequences ==
    {<<ESC, Asc["A"]>>, <<ESC, Asc["H"]>>, <<ESC, Asc["Y"], 33, 34>>,
     <<ESC, Asc["<"]>>, ModeChunk(2, "l")}

Vt52Receive ==
    \E chars \in {<<cc>> : cc \in Vt52CodePoints} \cup Vt52Sequences :
        /\ Commit(receiveChars(St, chars))
        /\ lastCall' = Op("receiveChars", "", Len(chars))
        /\ calls' = <<chars>>
        /\ log' = <<[ansi |-> _currentModes[MODE_Ansi],
                     tokenBuffer |-> tokenBuffer,
                     second |-> tokenBuffer1]>>
        /\ EndRecord
        /\ UNCHANGED <<pendingOrder, updates>>

NextVt52 == OrderReset \/ Vt52Receive

SpecVt52 == Init /\ [][NextVt52]_vars

\* The last call brought one code point >= 32 other than DEL in VT52 mode
\* while no sequence was in progress.
Vt52Char ==
    /\ lastCall.op = "receiveChars" /\ lastCall.n = 1
    /\ ~log[1].ansi /\ log[1].tokenBuffer = <<>>
    /\ calls[1][1] >= 32 /\ calls[1][1] # DEL

\* C36 as stated: in VT52 mode a code point >= 32 other than DEL that
\* arrives while no sequence is in progress gives exactly one token, Chr
\* with that code point.
C36_OneChrToken ==
    Vt52Char =>
        tokens = <<[token |-> token_chr, p |-> calls[1][1], q |-> 0]>>

\* C36, the part that holds: a code point in 32 .. 255 gives exactly one
\* token, Chr with that code point; a code point >= 256 gives exactly one
\* token, Vt52 of the code point that s[1] held, and leaves the tokenizer
\* reset.
C36_OneChrTokenBelow256 ==
    Vt52Char =>
        /\ calls[1][1] < 256 =>
               tokens = <<[token |-> token_chr, p |-> calls[1][1], q |-> 0]>>
        /\ calls[1][1] >= 256 =>
               tokens = <<[token |-> token_vt52(log[1].second),
                           p |-> 0, q |-> 0]>>
        /\ tokenBuffer = <<>>

\* C36 witness: U+0100 arrived in VT52 mode after ESC A had left 'A' in
\* s[1]; it was dispatched as Vt52('A') and moved the cursor up.
C36_Witness ==
    /\ Vt52Char
    /\ calls = <<<<256>>>>
    /\ log[1].second = Asc["A"]
    /\ tokens = <<[token |-> token_vt52(Asc["A"]), p |-> 0, q |-> 0]>>
    /\ Count("cursorUp") = 1
    /\ Count("displayCharacter") = 0

\* C36: the last 8-bit character arrived in VT52 mode and was displayed.
C36_LastByteReached ==
    /\ Vt52Char
    /\ calls = <<<<255>>>>
    /\ emitted[1].op = "displayCharacter" /\ emitted[1].args = <<255>>

---------------------------------------------------------------------------
(* Device queries with parameter lists: CSI > ... c, CSI = ... c and       *)
(* CSI ... n arrive with no, one and several parameters.  calls holds the  *)
(* query of the last call and log the mode it found.                       *)

Query(kind, prefix, params, final) ==
    [kind |-> kind, params |-> params,
     chunk |-> <<ESC, Asc["["]>> \o prefix
               \o (IF params = <<>> THEN <<>> ELSE SgrText(params))
               \o <<Asc[final]>>]

\* DA2 and DA3 without and with parameters; DSR for the status, for the
\* cursor, for both, twice for the cursor, three times for the status,
\* and with a parameter that is no query.
Queries ==
    {Query("DA2", <<Asc[">"]>>, ps, "c") :
        ps \in {<<>>, <<0>>, <<0, 0>>, <<1, 2, 3>>}}
    \cup
    {Query("DA3", <<Asc["="]>>, ps, "c") : ps \in {<<>>, <<0>>, <<0, 0>>}}
    \cup
    {Query("DSR", <<>>, ps, "n") :
        ps \in {<<>>, <<0>>, <<5>>, <<6>>, <<5, 6>>, <<6, 6>>, <<5, 5, 5>>}}

QueryReceive ==
    \E query \in Queries :
        /\ Commit(receiveChars(St, query.chunk))
        /\ lastCall' = Op("receiveChars", query.kind, Len(query.params))
        /\ calls' = <<query>>
        /\ log' = <<[ansi |-> _currentModes[MODE_Ansi]]>>
        /\ EndRecord
        /\ UNCHANGED <<pendingOrder, updates>>

NextQuery == OrderReset \/ QueryReceive

SpecQuery == Init /\ [][NextQuery]_vars

\* The last call brought a device query in ANSI mode.
QueryDone == lastCall.op = "receiveChars" /\ log[1].ansi

\* The query of the last call asks for a reply: DA2, DA3, or DSR with a
\* parameter 5 or 6.
QueryAsks ==
    \/ calls[1].kind \in {"DA2", "DA3"}
    \/ \E i \in 1..Len(calls[1].params) : calls[1].params[i] \in {5, 6}

\* The parameters of the last query that stand for a reply: every one of
\* a DA2 or DA3, the single zero of an empty list included, and those of
\* a DSR that are 5 or 6.
QueryReplies ==
    IF calls[1].kind \in {"DA2", "DA3"}
    THEN IF calls[1].params = <<>> THEN 1 ELSE Len(calls[1].params)
    ELSE Cardinality({i \in 1..Len(calls[1].params) :
                         calls[1].params[i] \in {5, 6}})

C37_BothReportsReached ==
    /\ QueryDone
    /\ calls[1].kind = "DSR" /\ calls[1].params = <<5, 6>>
    /\ Len(emitted) = 2
    /\ emitted[1].text = <<ESC>> \o Codes(<<"[", "0", "n">>)
    /\ emitted[2].m = "CursorPosition"


---------------------------------------------------------------------------
(* Focus across resets: CSI ? 1004 h and l, other private-mode sequences   *)
(* and ESC c arrive, reset() is called, and the widget reports focus       *)
(* changes.  log holds the final of the last CSI ? 1004 sequence received  *)
(* in ANSI mode since the last reset, calls the final of the last one      *)
(* received before that reset.                                             *)

RefocusInputs ==
    {[n |-> 0, f |-> "c", chunk |-> <<ESC, Asc["c"]>>]} \cup
    {[n |-> n, f |-> f, chunk |-> ModeChunk(n, f)] :
        n \in FocusNumbers, f \in {"h", "l"}}

RefocusReceive ==
    \E i \in RefocusInputs :
        /\ Commit(receiveChars(St, i.chunk))
        /\ lastCall' = Op("receiveChars", i.f, i.n)
        /\ log' = IF ~_currentModes[MODE_Ansi] THEN log
                  ELSE IF i.n = 0 THEN <<>>
                  ELSE IF i.n = 1004 THEN <<i.f>>
                  ELSE log
        /\ calls' = IF _currentModes[MODE_Ansi] /\ i.n = 0 /\ log # <<>>
                    THEN log ELSE calls
        /\ EndRecord
        /\ UNCHANGED <<pendingOrder, updates>>

RefocusReset ==
    /\ Commit(reset(St))
    /\ lastCall' = Op("reset", "", 0)
    /\ log' = <<>>
    /\ calls' = IF log # <<>> THEN log ELSE calls
    /\ EndRecord
    /\ UNCHANGED <<pendingOrder, updates>>

NextRefocus == RefocusReset \/ RefocusReceive \/ FocusChanged

SpecRefocus == Init /\ [][NextRefocus]_vars

\* C38: after reset(), called or received as ESC c, a focusChanged event
\* sends no bytes until a new CSI ? 1004 h is received, even if CSI ? 1004 h
\* had been received before the reset.
C38_ResetTurnsFocusOff ==
    (lastCall.op = "focusChanged" /\ log # <<"h">>) => emitted = <<>>

\* C38 witness: CSI ? 1004 h was received, ESC c or reset() followed with
\* no CSI ? 1004 sequence after it, and the gain of focus sent ESC [ I.
C38_Witness ==
    /\ lastCall = Op("focusChanged", "", 1)
    /\ log = <<>>
    /\ calls = <<"h">>
    /\ Len(emitted) = 1
    /\ emitted[1].op = "sendData"
    /\ emitted[1].text = <<ESC, Asc["["], Asc["I"]>>

\* A reset after CSI ? 1004 l, or after none, leaves focus reporting off.
C38_OffStaysOff ==
    (lastCall.op = "focusChanged" /\ log = <<>> /\ calls # <<"h">>)
        => emitted = <<>>


---------------------------------------------------------------------------
(* RGB colours: CSI 38;2;r;g;b m and CSI 48;2;r;g;b m with components up   *)
(* to and beyond MAX_ARGUMENT.  The components are read by addDigit from   *)
(* their digits and the loop runs over the five parameters.  log holds the *)
(* selector and the components read.                                       *)

\* argv[0] after the digits ds of one parameter.
RECURSIVE readDigits(_, _)
readDigits(s, ds) ==
    IF ds = <<>> THEN s
    ELSE readDigits(addDigit(s, Head(ds)), Tail(ds))

\* The digits of 0, 255, 256, 40960 and 99999.
RgbDigits ==
    {<<0>>, <<2, 5, 5>>, <<2, 5, 6>>, <<4, 0, 9, 6, 0>>, <<9, 9, 9, 9, 9>>}

RgbReceive ==
    \E sel \in {38, 48}, rd \in RgbDigits, gd \in RgbDigits, bd \in RgbDigits :
        \E c \in {[d \in {rd, gd, bd} |->
                      readDigits(resetTokenizer(St), d).argv[0]]} :
            /\ _currentModes[MODE_Ansi]
            /\ \E x \in {csiLoop(SgrState(St, <<sel, 2, c[rd], c[gd], c[bd]>>),
                                 Asc["m"], 0)} :
                   Commit(resetTokenizer([x EXCEPT !.argv = argv]))
            /\ lastCall' = Op("receiveChars", "m", sel)
            /\ log' = <<[r |-> c[rd], g |-> c[gd], b |-> c[bd],
                         digits |-> <<rd, gd, bd>>]>>
            /\ calls' = <<>>
            /\ EndRecord
            /\ UNCHANGED <<pendingOrder, updates>>

NextRgb == OrderReset \/ RgbReceive

SpecRgb == Init /\ [][NextRgb]_vars

\* The last step dispatched an RGB sub-sequence.
RgbDone == lastCall.op = "receiveChars" /\ lastCall.m = "m" /\ log # <<>>

\* The colour value the last step passed to setForeColor or setBackColor.
RgbPassed == emitted[1].args[2]

\* C39: for every sub-sequence 38;2;r;g;b or 48;2;r;g;b with parameters
\* accepted by the tokenizer, the colour value passed to setForeColor or
\* setBackColor lies in 0..0xFFFFFF, (r << 16) | (g << 8) | b does not
\* exceed a 32-bit signed integer, and the red, green and blue bytes of the
\* value are those of r, of g and of b alone.
C39_RgbFieldsSeparate ==
    RgbDone =>
        /\ Len(emitted) = 1
        /\ emitted[1].op =
               (IF lastCall.n = 38 THEN "setForeColor" ELSE "setBackColor")
        /\ emitted[1].args[1] = COLOR_SPACE_RGB
        /\ RgbPassed \in 0..16777215
        /\ log[1].r * 65536 <= 2147483647
        /\ (RgbPassed \div 65536) % 256 = log[1].r % 256
        /\ (RgbPassed \div 256) % 256 = log[1].g % 256
        /\ RgbPassed % 256 = log[1].b % 256

\* C39 witness: CSI 38;2;40960;0;0 m passed a negative colour value to
\* setForeColor, and r << 16 is beyond 2^31 - 1.
C39_Witness ==
    /\ RgbDone
    /\ lastCall.n = 38
    /\ log[1].digits = <<<<4, 0, 9, 6, 0>>, <<0>>, <<0>>>>
    /\ log[1].r = MAX_ARGUMENT
    /\ emitted[1].op = "setForeColor"
    /\ RgbPassed = -1610612736

\* CSI 48;2;0;256;0 m set the red byte of the background from g.
C39_GreenInRedReached ==
    /\ RgbDone
    /\ lastCall.n = 48
    /\ [k \in {"r", "g", "b"} |-> log[1][k]] = [r |-> 0, g |-> 256, b |-> 0]
    /\ emitted[1].op = "setBackColor"
    /\ RgbPassed = 65536

\* With r, g and b in 0..255 the value is r * 65536 + g * 256 + b.
C39_BytesSeparate ==
    (RgbDone /\ \A k \in {"r", "g", "b"} : log[1][k] <= 255) =>
        /\ Len(emitted) = 1
        /\ emitted[1].args[1] = COLOR_SPACE_RGB
        /\ RgbPassed =
               (log[1].r * 65536) + (log[1].g * 256) + log[1].b


---------------------------------------------------------------------------
(* Hyperlinks and other OSCs: OSC 8 opens and closes URL input, OSCs with  *)
(* the ids 0 and 1 arrive in between and outside, and the timer fires.     *)
(* calls holds the state an OSC arrived in.                                *)

UrlInputs ==
    {[m |-> "url", id |-> URL_LINK - Asc["0"], value |-> <<>>,
      chunk |-> UrlChunk]} \cup
    {[m |-> "update", id |-> id, value |-> <<Asc[v]>>,
      chunk |-> AttrChunk(id, v)] : id \in AttrIds, v \in AttrValues}

UrlReceive ==
    \E i \in UrlInputs :
        /\ Commit(receiveChars(St, i.chunk))
        /\ lastCall' = Op("receiveChars", i.m, i.id)
        /\ calls' = <<[value |-> i.value,
                       ansi |-> _currentModes[MODE_Ansi],
                       idle |-> tokenBuffer = <<>>,
                       reading |-> urlReading[_currentScreen],
                       pending |-> _pendingSessionAttributesUpdates,
                       timer |-> timerActive]>>
        /\ log' = <<>>
        /\ EndRecord
        /\ UNCHANGED <<pendingOrder, updates>>

NextUrl == OrderReset \/ UrlReceive \/ TimerFire

SpecUrl == Init /\ [][NextUrl]_vars

\* An OSC with an id other than 8 was received whole in ANSI mode.
UrlOther ==
    /\ lastCall.op = "receiveChars" /\ lastCall.m = "update"
    /\ calls[1].ansi /\ calls[1].idle

\* C40: while the URL extractor is in URL-input mode, an OSC with an
\* attribute id other than 8 does not change the extractor's URL and is
\* recorded in the pending attribute map, with the timer started.
C40_OtherOscNotTakenAsUrl ==
    (UrlOther /\ calls[1].reading) =>
        /\ Count("setUrl") = 0
        /\ _pendingSessionAttributesUpdates =
               insertPending(calls[1].pending, lastCall.n, calls[1].value)
        /\ timerActive

\* C40 witness: OSC 0 ; a BEL arrived in URL-input mode with nothing
\* pending: setUrl("a") was called, nothing is pending and the timer was
\* not started.
C40_Witness ==
    /\ UrlOther /\ calls[1].reading
    /\ lastCall.n = 0
    /\ calls[1].pending = {} /\ ~calls[1].timer
    /\ \E k \in 1..Len(emitted) :
           /\ emitted[k].op = "setUrl"
           /\ emitted[k].tgt = "url"
           /\ emitted[k].text = <<Asc["a"]>>
    /\ _pendingSessionAttributesUpdates = {}
    /\ ~timerActive

\* Outside URL-input mode the OSC is recorded and the timer started.
C40_RecordedOutsideUrlInput ==
    (UrlOther /\ ~calls[1].reading) =>
        /\ Count("setUrl") = 0
        /\ _pendingSessionAttributesUpdates =
               insertPending(calls[1].pending, lastCall.n, calls[1].value)
        /\ timerActive

=============================================================================
